---- MODULE Spec2Model ----
(***************************************************************************)
(* Model of the Places sensor (custom_components/places/sensor.py): the    *)
(* attribute store, the update gate, the coordinate/distance resolver,     *)
(* the OSM parser, the state builders and the update pass do_update.       *)
(*                                                                         *)
(* Python values are tagged records so that values of different Python     *)
(* types can be compared: [none], [s: str], [n: number], [b: bool],        *)
(* [l: list of str], [d: dict], [c: decimal string of a coordinate],       *)
(* [loc: "lat,lon" string].  Lengths are carried in decimetres: the        *)
(* number n stands for the float n/10 metres, int(n/10) is n \div 10.      *)
(***************************************************************************)
EXTENDS Integers, Sequences, FiniteSets, TLC

(***************************************************************************)
(* Python values                                                           *)
(***************************************************************************)
None == [none |-> TRUE]
Str(x) == [s |-> x]
Num(x) == [n |-> x]
Bool(x) == [b |-> x]
List(x) == [l |-> x]
Dict(x) == [d |-> x]
Coord(x) == [c |-> x]
Loc(lat, lon) == [loc |-> <<lat, lon>>]

IsNone(v) == "none" \in DOMAIN v
IsStr(v) == "s" \in DOMAIN v
IsNum(v) == "n" \in DOMAIN v
IsBool(v) == "b" \in DOMAIN v
IsList(v) == "l" \in DOMAIN v
IsDict(v) == "d" \in DOMAIN v
IsCoord(v) == "c" \in DOMAIN v

EmptyDict == Dict(<<>>)

\* the values bool(v) of Python takes to False
Falsy == {None, Bool(FALSE), Num(0), Str(""), List(<<>>), EmptyDict}

\* bool(v) of Python
Truthy(v) == v \notin Falsy

\* v == 0 of Python (False == 0 and 0.0 == 0 are true)
EqZero(v) == v \in {Num(0), Bool(FALSE)}

(***************************************************************************)
(* Python str methods, on TLA+ strings                                     *)
(***************************************************************************)
Min(a, b) == IF a < b THEN a ELSE b
Max(a, b) == IF a > b THEN a ELSE b

CharAt(s, i) == SubSeq(s, i, i)

\* s[i:j] with 0 <= i, j (clamped to the string)
Slice(s, i, j) ==
    LET lo == Min(i, Len(s))
        hi == Min(j, Len(s))
    IN  IF hi <= lo THEN "" ELSE SubSeq(s, lo + 1, hi)

\* s[:n], n possibly negative
SliceTo(s, n) == IF n >= 0 THEN Slice(s, 0, n) ELSE Slice(s, 0, Max(Len(s) + n, 0))

\* s[n:]
SliceFrom(s, n) == Slice(s, n, Len(s))

UpperAlpha == "ABCDEFGHIJKLMNOPQRSTUVWXYZ"
LowerAlpha == "abcdefghijklmnopqrstuvwxyz"

RECURSIVE IndexIn(_, _, _)
\* 1-based position of the one-character string ch in alphabet from position i on, 0 if none
IndexIn(ch, alphabet, i) ==
    IF i > Len(alphabet) THEN 0
    ELSE IF CharAt(alphabet, i) = ch THEN i
    ELSE IndexIn(ch, alphabet, i + 1)

\* the lower-case letter of every upper-case letter, and the reverse
ToLower == [ch \in {CharAt(UpperAlpha, i) : i \in 1..26} |-> CharAt(LowerAlpha, IndexIn(ch, UpperAlpha, 1))]
ToUpper == [ch \in {CharAt(LowerAlpha, i) : i \in 1..26} |-> CharAt(UpperAlpha, IndexIn(ch, LowerAlpha, 1))]

IsUpperCh(ch) == ch \in DOMAIN ToLower
IsLowerCh(ch) == ch \in DOMAIN ToUpper
IsAlphaCh(ch) == IsUpperCh(ch) \/ IsLowerCh(ch)
LowerCh(ch) == IF IsUpperCh(ch) THEN ToLower[ch] ELSE ch
UpperCh(ch) == IF IsLowerCh(ch) THEN ToUpper[ch] ELSE ch
IsSpaceCh(ch) == ch \in {" ", "\n", "\t"}

RECURSIVE LowerRange(_, _, _)
\* the characters lo..hi of s lower-cased (halving keeps the recursion shallow)
LowerRange(s, lo, hi) ==
    IF hi < lo THEN ""
    ELSE IF lo = hi THEN LowerCh(CharAt(s, lo))
    ELSE LET mid == (lo + hi) \div 2
         IN  LowerRange(s, lo, mid) \o LowerRange(s, mid + 1, hi)
\* str.lower()
Lower(s) == LowerRange(s, 1, Len(s))

RECURSIVE UpperRange(_, _, _)
UpperRange(s, lo, hi) ==
    IF hi < lo THEN ""
    ELSE IF lo = hi THEN UpperCh(CharAt(s, lo))
    ELSE LET mid == (lo + hi) \div 2
         IN  UpperRange(s, lo, mid) \o UpperRange(s, mid + 1, hi)
\* str.upper()
Upper(s) == UpperRange(s, 1, Len(s))

\* the character at i after str.title(): upper-cased at the start of a run of letters
TitleCh(s, i) ==
    LET ch == CharAt(s, i)
    IN  IF ~IsAlphaCh(ch) THEN ch
        ELSE IF i > 1 /\ IsAlphaCh(CharAt(s, i - 1)) THEN LowerCh(ch)
        ELSE UpperCh(ch)
RECURSIVE TitleRange(_, _, _)
TitleRange(s, lo, hi) ==
    IF hi < lo THEN ""
    ELSE IF lo = hi THEN TitleCh(s, lo)
    ELSE LET mid == (lo + hi) \div 2
         IN  TitleRange(s, lo, mid) \o TitleRange(s, mid + 1, hi)
\* str.title()
Title(s) == TitleRange(s, 1, Len(s))

RECURSIVE LStrip(_)
LStrip(s) == IF s # "" /\ IsSpaceCh(CharAt(s, 1)) THEN LStrip(SubSeq(s, 2, Len(s))) ELSE s
RECURSIVE RStrip(_)
RStrip(s) == IF s # "" /\ IsSpaceCh(CharAt(s, Len(s))) THEN RStrip(SubSeq(s, 1, Len(s) - 1)) ELSE s
\* str.strip()
Strip(s) == LStrip(RStrip(s))

\* str.startswith(p)
StartsWith(s, p) == Len(s) >= Len(p) /\ SubSeq(s, 1, Len(p)) = p

\* str.find(sub): 0-based index of the first occurrence of sub in s, -1 if none
Find(s, sub) ==
    LET hits == {i \in 1..(Len(s) - Len(sub) + 1) : SubSeq(s, i, i + Len(sub) - 1) = sub}
    IN  IF hits = {} THEN -1 ELSE (CHOOSE i \in hits : \A j \in hits : i <= j) - 1
\* sub in s
Contains(s, sub) == Find(s, sub) # -1

RECURSIVE Replace(_, _, _)
\* str.replace(old, new), old non-empty
Replace(s, old, new) ==
    LET k == Find(s, old)
    IN  IF k = -1 THEN s
        ELSE Slice(s, 0, k) \o new \o Replace(SliceFrom(s, k + Len(old)), old, new)

RECURSIVE Split(_, _)
\* str.split(sep), sep non-empty
Split(s, sep) ==
    LET k == Find(s, sep)
    IN  IF k = -1 THEN <<s>>
        ELSE <<Slice(s, 0, k)>> \o Split(SliceFrom(s, k + Len(sep)), sep)

RECURSIVE Join(_, _)
\* sep.join(items)
Join(items, sep) ==
    IF items = <<>> THEN ""
    ELSE IF Len(items) = 1 THEN items[1]
    ELSE items[1] \o sep \o Join(Tail(items), sep)

RECURSIVE Rep(_, _)
\* s * k
Rep(s, k) ==
    IF k = 0 THEN ""
    ELSE IF k = 1 THEN s
    ELSE Rep(s, k \div 2) \o Rep(s, k - (k \div 2))

RECURSIVE StrOfNat(_)
\* str(k) of a natural number
StrOfNat(k) ==
    IF k < 10 THEN CharAt("0123456789", k + 1)
    ELSE StrOfNat(k \div 10) \o CharAt("0123456789", (k % 10) + 1)

\* the value the last of a run of statements leaves, the statements evaluated in order
Final(steps) == steps[Len(steps)]

\* x in list
InList(x, items) == \E i \in DOMAIN items : items[i] = x

RECURSIVE RemoveFirst(_, _)
\* list.remove(x) on a list that holds x
RemoveFirst(items, x) ==
    IF items = <<>> THEN <<>>
    ELSE IF Head(items) = x THEN Tail(items)
    ELSE <<Head(items)>> \o RemoveFirst(Tail(items), x)

(***************************************************************************)
(* Attribute store: Places._internal_attr, a dict from attribute name to   *)
(* value, modelled as a function whose domain is the set of present keys   *)
(***************************************************************************)
\* self._internal_attr.get(attr)
RawGet(a, attr) == IF attr \in DOMAIN a THEN a[attr] ELSE None

\* blank as plain falsiness, without the test for 0
BlankWhenFalsy(v) == ~Truthy(v)

\* neither truthy nor equal to 0: what is_attr_blank calls blank
Blank(v) == ~(Truthy(v) \/ EqZero(v))

is_attr_blank(a, attr) == Blank(RawGet(a, attr))

\* get_attr(attr) with the default left at None
get_attr(a, attr) == IF is_attr_blank(a, attr) THEN None ELSE RawGet(a, attr)

set_attr(a, attr, value) == (attr :> value) @@ a

clear_attr(a, attr) == [k \in DOMAIN a \ {attr} |-> a[k]]

cleanup_attributes(a) == [k \in {j \in DOMAIN a : ~is_attr_blank(a, j)} |-> a[k]]

\* for attr in attrs: self.clear_attr(attr)
ClearAll(a, attrs) == [k \in DOMAIN a \ attrs |-> a[k]]

\* is_float(value) for the values of the model: None is no float, a coordinate or a number is
is_float(v) == IsCoord(v) \/ IsNum(v)

\* str(value) of a coordinate (a float of the tracker or the decimal string already stored)
StrOfCoord(v) == IF IsNum(v) THEN Coord(v.n) ELSE v

\* float(value) of a stored coordinate string
FloatOf(v) == v.c

(***************************************************************************)
(* Geo-math.  Coordinates are integers on a grid whose unit is one         *)
(* decimetre of arc along the equator or a meridian; distances are in      *)
(* decimetres.  The coordinates of the model lie within a kilometre of     *)
(* latitude 0 and of longitude 0 or 90 degrees, and two points compared    *)
(* differ in one coordinate only.                                          *)
(***************************************************************************)
Abs(i) == IF i < 0 THEN -i ELSE i

\* 90 degrees on the grid: a quarter of the great circle of radius r = 6371 km
QuarterTurn == 15708 * 6371

\* cos of an angle on the grid, to the nearest whole: 1 near 0, 0 near 90 degrees
Cos(x) == IF 2 * Abs(x) < QuarterTurn THEN 1 ELSE 0

\* homeassistant.util.location.distance(lat1, lon1, lat2, lon2), in decimetres: a step of
\* longitude is shortened by the cosine of the latitude
distance(lat1, lon1, lat2, lon2) == Abs(lat1 - lat2) + Cos(lat1) * Abs(lon1 - lon2)

\* Places.haversine(lon1, lat1, lon2, lat2), in decimetres (the code returns kilometres):
\* sin(dlat/2)^2 + cos(lat1) * cos(lat2) * sin(dlon/2)^2 for two points close together
haversine(lon1, lat1, lon2, lat2) == Abs(lat1 - lat2) + Cos(lat1) * Abs(lon1 - lon2)

\* round(m / 1000, 3) and round(m / 1609, 3), in thousandths, for m given in decimetres
RoundDiv(p, q) == (2 * p + q) \div (2 * q)
KmOf(dm) == RoundDiv(dm, 10)
MiOf(dm) == RoundDiv(dm * 1000, 16090)

\* int(x) of a non-negative length given in decimetres
IntPart(dm) == dm \div 10

(***************************************************************************)
(* Program constants                                                       *)
(***************************************************************************)
\* 0.2 km, the largest displacement still "stationary", in decimetres
StationaryRadius == 2000
\* 10 m, the debounce distance of the update gate, in metres
DebounceMetres == 10
\* the number of skipped updates after which a small move is let through
SkipLimit == 3
\* the longest native value
MaxStateLen == 255
\* len(" (since HH:MM)")
SinceLen == 14

(***************************************************************************)
(* Zone of the tracked entity                                              *)
(***************************************************************************)
\* the zone states that mean "in no zone"
NoZoneState(z) == Contains(z, "stationary") \/ z = "away" \/ z = "not_home" \/ z = "notset"

in_zone(a) ==
    IF ~is_attr_blank(a, "devicetracker_zone")
    THEN ~NoZoneState(Lower(get_attr(a, "devicetracker_zone").s))
    ELSE FALSE

\* lines 861-864: the zone is the state of the tracked entity tr
SetZone(a, tr) == set_attr(a, "devicetracker_zone", Str(tr.state))

\* lines 872-899: the zone name is the name of the zone entity tr.zone_name, else the zone
SetZoneName(a, tr) ==
    IF ~IsNone(tr.zone_name)
    THEN set_attr(a, "devicetracker_zone_name", tr.zone_name)
    ELSE set_attr(a, "devicetracker_zone_name", get_attr(a, "devicetracker_zone"))

\* name.title() when name.lower() == name
TitleIfLower(name) == IF Lower(name.s) = name.s THEN Str(Title(name.s)) ELSE name

\* lines 900-906: a lower-case zone name is title-cased
TitleZoneName(a) ==
    IF ~is_attr_blank(a, "devicetracker_zone_name")
    THEN set_attr(a, "devicetracker_zone_name", TitleIfLower(get_attr(a, "devicetracker_zone_name")))
    ELSE a

\* get_zone_details: tr is the tracked entity's state object, tr.state its state,
\* tr.zone_name the name of the state object zone.<zone attribute> (None without one)
get_zone_details(a, tr) == TitleZoneName(SetZoneName(SetZone(a, tr), tr))

\* get_gps_accuracy: tr.acc is the tracker's gps_accuracy attribute (None when absent)
get_gps_accuracy(a, tr) ==
    IF ~IsNone(tr.acc) /\ is_float(tr.acc) THEN set_attr(a, "gps_accuracy", tr.acc) ELSE a

(***************************************************************************)
(* Update gate                                                             *)
(***************************************************************************)
\* the branch of determine_if_update_needed that is taken
\* the branches without the accuracy rule of lines 914-924
GateRuleIgnoringAccuracy(a) ==
    IF Truthy(get_attr(a, "initial_update")) THEN "initial"
    ELSE IF get_attr(a, "current_location") = get_attr(a, "previous_location") THEN "identical"
    ELSE IF IntPart(get_attr(a, "distance_traveled_m").n) > 0
            /\ get_attr(a, "updates_skipped").n > SkipLimit THEN "forced"
    ELSE IF IntPart(get_attr(a, "distance_traveled_m").n) < DebounceMetres THEN "debounce"
    ELSE "normal"

\* the branches without the rule of lines 942-950 that lets a small move through
GateRuleWithoutForce(a) ==
    IF ~is_attr_blank(a, "gps_accuracy") /\ EqZero(get_attr(a, "gps_accuracy")) THEN "accuracy"
    ELSE IF Truthy(get_attr(a, "initial_update")) THEN "initial"
    ELSE IF get_attr(a, "current_location") = get_attr(a, "previous_location") THEN "identical"
    ELSE IF IntPart(get_attr(a, "distance_traveled_m").n) < DebounceMetres THEN "debounce"
    ELSE "normal"

\* lines 913-963: the branch of determine_if_update_needed that is taken
GateRule(a) ==
    IF ~is_attr_blank(a, "gps_accuracy") /\ EqZero(get_attr(a, "gps_accuracy")) THEN "accuracy"
    ELSE IF Truthy(get_attr(a, "initial_update")) THEN "initial"
    ELSE IF get_attr(a, "current_location") = get_attr(a, "previous_location") THEN "identical"
    ELSE IF IntPart(get_attr(a, "distance_traveled_m").n) > 0
            /\ get_attr(a, "updates_skipped").n > SkipLimit THEN "forced"
    ELSE IF IntPart(get_attr(a, "distance_traveled_m").n) < DebounceMetres THEN "debounce"
    ELSE "normal"

\* a debounce branch that leaves the skip counter alone
SkipUnchanged(a) == get_attr(a, "updates_skipped")

\* the skip counter after the debounce branch
SkipIncrement(a) == Num(get_attr(a, "updates_skipped").n + 1)

\* a gate that counts a pass with identical coordinates as skipped too
GateOutcomeCountingIdentical(a, rule) ==
    [a |-> IF rule \in {"debounce", "identical"}
           THEN set_attr(a, "updates_skipped", SkipIncrement(a)) ELSE a,
     proceed |-> rule \in {"initial", "forced", "normal"},
     rule |-> rule]

\* the store and proceed_with_update the branch rule leaves
GateOutcome(a, rule) ==
    [a |-> IF rule = "debounce" THEN set_attr(a, "updates_skipped", SkipIncrement(a)) ELSE a,
     proceed |-> rule \in {"initial", "forced", "normal"},
     rule |-> rule]

\* determine_if_update_needed: the store it leaves and proceed_with_update
determine_if_update_needed(a) == GateOutcome(a, GateRule(a))

(***************************************************************************)
(* Coordinate/distance resolver                                            *)
(***************************************************************************)
\* if lat and lon are not blank: the "lat,lon" string attr
SetLocation(a, attr, lat, lon) ==
    IF ~is_attr_blank(a, lat) /\ ~is_attr_blank(a, lon)
    THEN set_attr(a, attr, Loc(get_attr(a, lat).c, get_attr(a, lon).c))
    ELSE a

\* lines 1709-1740: the current, previous and home location
SetLocations(a) ==
    SetLocation(SetLocation(SetLocation(a, "current_location", "latitude", "longitude"),
                            "previous_location", "latitude_old", "longitude_old"),
                "home_location", "home_latitude", "home_longitude")

\* last_place_name set from the place name only, also inside a zone
SetLastPlaceNameFromPlace(a) ==
    IF ~is_attr_blank(a, "place_name")
    THEN set_attr(a, "last_place_name", get_attr(a, "place_name"))
    ELSE a

\* lines 1749-1770: last_place_name as update_coordinates_and_distance sets it
SetLastPlaceName(a) ==
    IF ~in_zone(a)
    THEN IF ~is_attr_blank(a, "place_name")
         THEN set_attr(a, "last_place_name", get_attr(a, "place_name"))
         ELSE a
    ELSE set_attr(a, "last_place_name", get_attr(a, "devicetracker_zone_name"))

HasOldCoordinates(a) == ~is_attr_blank(a, "latitude_old") /\ ~is_attr_blank(a, "longitude_old")

\* lines 1791-1798: distance_from_home_m
SetDistanceFromHome(a) ==
    set_attr(a, "distance_from_home_m",
             Num(distance(FloatOf(get_attr(a, "latitude")), FloatOf(get_attr(a, "longitude")),
                          FloatOf(get_attr(a, "home_latitude")), FloatOf(get_attr(a, "home_longitude")))))

\* lines 1800-1808: distance_from_home_km and distance_from_home_mi
SetDistanceFromHomeUnits(a) ==
    IF ~is_attr_blank(a, "distance_from_home_m")
    THEN set_attr(set_attr(a, "distance_from_home_km", Num(KmOf(get_attr(a, "distance_from_home_m").n))),
                  "distance_from_home_mi", Num(MiOf(get_attr(a, "distance_from_home_m").n)))
    ELSE a

\* lines 1809-1827: direction_of_travel; last is the distance from home before this pass
\* (None if unknown).  None stands for the TypeError of None > float.
DirectionOfTravel(a, last) ==
    IF HasOldCoordinates(a)
    THEN IF haversine(FloatOf(get_attr(a, "latitude_old")), FloatOf(get_attr(a, "longitude_old")),
                      FloatOf(get_attr(a, "latitude")), FloatOf(get_attr(a, "longitude")))
            <= StationaryRadius
         THEN Str("stationary")
         ELSE IF IsNone(last) THEN None
         ELSE IF last.n > get_attr(a, "distance_from_home_m").n THEN Str("towards home")
         ELSE IF last.n < get_attr(a, "distance_from_home_m").n THEN Str("away from home")
         ELSE Str("stationary")
    ELSE Str("stationary")

\* lines 1867-1875: distance_traveled_m from the old coordinates
SetDistanceTraveledM(a) ==
    set_attr(a, "distance_traveled_m",
             Num(distance(FloatOf(get_attr(a, "latitude")), FloatOf(get_attr(a, "longitude")),
                          FloatOf(get_attr(a, "latitude_old")), FloatOf(get_attr(a, "longitude_old")))))

\* lines 1876-1880: distance_traveled_mi
SetDistanceTraveledMi(a) ==
    IF ~is_attr_blank(a, "distance_traveled_m")
    THEN set_attr(a, "distance_traveled_mi", Num(MiOf(get_attr(a, "distance_traveled_m").n)))
    ELSE a

\* lines 1863-1880: distance_traveled_m and distance_traveled_mi
SetDistanceTraveled(a) ==
    IF HasOldCoordinates(a)
    THEN SetDistanceTraveledMi(SetDistanceTraveledM(set_attr(a, "distance_traveled_m", Num(0))))
    ELSE set_attr(a, "distance_traveled_m", Num(0))

\* lines 1809-1880 once the direction dir is known: a raise leaves the store as it is
SetDirectionAndTravel(a, dir) ==
    IF IsNone(dir) THEN [a |-> a, proceed |-> FALSE, raised |-> TRUE]
    ELSE [a |-> SetDistanceTraveled(set_attr(a, "direction_of_travel", dir)),
          proceed |-> TRUE, raised |-> FALSE]

\* lines 1791-1880: the distances and the direction, last_distance_m read on entry
SetDistances(a, last_distance_m) == SetDirectionAndTravel(a, DirectionOfTravel(a, last_distance_m))

\* lines 1785-1889: with all four coordinates the distances, else no update
UpdateDistances(a, last_distance_m) ==
    IF ~is_attr_blank(a, "latitude") /\ ~is_attr_blank(a, "longitude")
       /\ ~is_attr_blank(a, "home_latitude") /\ ~is_attr_blank(a, "home_longitude")
    THEN SetDistances(SetDistanceFromHomeUnits(SetDistanceFromHome(a)), last_distance_m)
    ELSE [a |-> a, proceed |-> FALSE, raised |-> FALSE]

\* update_coordinates_and_distance: the store it leaves, proceed_with_update, and whether
\* it raised (the store is then the one at the raise)
update_coordinates_and_distance(a) ==
    UpdateDistances(SetLastPlaceName(SetLocations(a)), get_attr(a, "distance_from_home_m"))

(***************************************************************************)
(* Reset of the place attributes, map link                                 *)
(***************************************************************************)
\* RESET_ATTRIBUTE_LIST of const.py: the transient place and geocode attributes
RESET_ATTRIBUTE_LIST ==
    {"street_number", "street", "city", "postal_town", "postal_code", "region", "state_abbr",
     "country", "county", "formatted_address", "place_type", "place_name", "place_category",
     "place_neighbourhood", "formatted_place", "osm_id", "osm_type", "wikidata_id",
     "osm_dict", "osm_details_dict", "wikidata_dict", "street_ref"}

\* the skip counter as _reset_attributes leaves it
SkipResetToOne == Num(1)
SkipReset == Num(0)

_reset_attributes(a) ==
    cleanup_attributes(set_attr(ClearAll(a, RESET_ATTRIBUTE_LIST), "updates_skipped", SkipReset))

\* get_map_link: the URL is kept as the provider and the coordinates it is built from
get_map_link(a) ==
    set_attr(a, "map_link",
             [url |-> <<get_attr(a, "map_provider"), get_attr(a, "current_location"),
                        get_attr(a, "map_zoom")>>])

(***************************************************************************)
(* Place parser.  A parse state is [a: store, raised: whether an exception *)
(* has left parse_osm_dict]; a step after a raise changes nothing.         *)
(***************************************************************************)
\* dict.get(key)
DictGet(dct, key) == IF key \in DOMAIN dct.d THEN dct.d[key] ELSE None
\* key in dict
InDict(key, dct) == key \in DOMAIN dct.d

OsmDict(a) == get_attr(a, "osm_dict")
Address(a) == DictGet(OsmDict(a), "address")
NameDetails(a) == DictGet(OsmDict(a), "namedetails")

Raise(a) == [a |-> a, raised |-> TRUE]
Go(a) == [a |-> a, raised |-> FALSE]

\* value in address, for a place type or category that may be None: key membership
ValueInAddress(a, v) == IsStr(v) /\ InDict(v.s, Address(a))

\* lines 1171-1176: place_type, "yes" replaced by the address type
SetPlaceType(a) == set_attr(a, "place_type", DictGet(OsmDict(a), "type"))
ResolveYesType(a) ==
    IF get_attr(a, "place_type") = Str("yes")
    THEN set_attr(a, "place_type", DictGet(OsmDict(a), "addresstype"))
    ELSE a

\* lines 1177-1185 and 1191-1199: place_name from address[value of attr]; the membership
\* test raises when the response holds no address
NameFromAddress(a, attr) ==
    IF IsNone(Address(a)) THEN Raise(a)
    ELSE IF ValueInAddress(a, get_attr(a, attr))
    THEN Go(set_attr(a, "place_name", DictGet(Address(a), get_attr(a, attr).s)))
    ELSE Go(a)

\* lines 1170-1185: place_type, and place_name from address[place_type]
ParseType(p) ==
    IF p.raised \/ ~InDict("type", OsmDict(p.a)) THEN p
    ELSE NameFromAddress(ResolveYesType(SetPlaceType(p.a)), "place_type")

\* lines 1186-1199: place_category, and place_name from address[place_category]
ParseCategory(p) ==
    IF p.raised \/ ~InDict("category", OsmDict(p.a)) THEN p
    ELSE NameFromAddress(set_attr(p.a, "place_category", DictGet(OsmDict(p.a), "category")),
                         "place_category")

RECURSIVE FirstLanguageName(_, _)
\* the first "name:<language>" key of namedetails, in the configured order (None if none)
FirstLanguageName(nd, languages) ==
    IF languages = <<>> THEN None
    ELSE IF InDict("name:" \o Head(languages), nd) THEN Str("name:" \o Head(languages))
    ELSE FirstLanguageName(nd, Tail(languages))

\* lines 1200-1204: place_name from namedetails.name
SetName(a) ==
    IF InDict("name", NameDetails(a)) THEN set_attr(a, "place_name", DictGet(NameDetails(a), "name"))
    ELSE a

\* place_name from namedetails[key.s] unless key is None
SetNameFrom(a, key) ==
    IF IsNone(key) THEN a ELSE set_attr(a, "place_name", DictGet(NameDetails(a), key.s))

\* lines 1205-1216: place_name from the first language name found
SetLanguageName(a) ==
    IF ~is_attr_blank(a, "language")
    THEN SetNameFrom(a, FirstLanguageName(NameDetails(a), Split(get_attr(a, "language").s, ",")))
    ELSE a

\* lines 1200-1216: place_name from namedetails.name, then from the first language name
ParseName(p) ==
    IF p.raised THEN p
    ELSE IF IsNone(NameDetails(p.a)) THEN Raise(p.a)
    ELSE Go(SetLanguageName(SetName(p.a)))

\* lines 1217-1218: the tentative native value
ParseNativeValue(p) ==
    IF p.raised THEN p
    ELSE IF ~in_zone(p.a) /\ get_attr(p.a, "place_name") # Str("house")
    THEN Go(set_attr(p.a, "native_value", get_attr(p.a, "place_name")))
    ELSE p

\* if key in address: set_attr(attr, address[key]); the test raises without an address
FromAddress(p, attr, key) ==
    IF p.raised THEN p
    ELSE IF IsNone(Address(p.a)) THEN Raise(p.a)
    ELSE IF InDict(key, Address(p.a)) THEN Go(set_attr(p.a, attr, DictGet(Address(p.a), key)))
    ELSE p

RECURSIVE FirstKeyIn(_, _)
\* the first key of keys that address holds (None if none): an if/elif chain
FirstKeyIn(addr, keys) ==
    IF keys = <<>> THEN None
    ELSE IF InDict(Head(keys), addr) THEN Str(Head(keys))
    ELSE FirstKeyIn(addr, Tail(keys))

\* set_attr(attr, address[key.s]) unless key is None
FromKey(p, attr, key) ==
    IF IsNone(key) THEN p ELSE Go(set_attr(p.a, attr, DictGet(Address(p.a), key.s)))

\* an if/elif chain over keys, setting attr from the first key address holds
FromFirstKey(p, attr, keys) ==
    IF p.raised THEN p
    ELSE IF IsNone(Address(p.a)) THEN Raise(p.a)
    ELSE FromKey(p, attr, FirstKeyIn(Address(p.a), keys))

\* lines 1272-1275: "City of X" becomes "X City"
RewriteCity(p) ==
    IF p.raised THEN p
    ELSE IF ~is_attr_blank(p.a, "city") /\ StartsWith(get_attr(p.a, "city").s, "City of")
    THEN Go(set_attr(p.a, "city", Str(SliceFrom(get_attr(p.a, "city").s, 8) \o " City")))
    ELSE p

\* lines 1277-1286: postal_town from city_district, then from suburb
ParsePostalTown(p) == FromAddress(FromAddress(p, "postal_town", "city_district"), "postal_town", "suburb")

\* lines 1220-1230: street number and street
ParseStreet(p) == FromAddress(FromAddress(p, "street_number", "house_number"), "street", "road")

\* lines 1231-1271: neighbourhood and city
ParseCity(p) ==
    FromFirstKey(FromFirstKey(p, "place_neighbourhood", <<"neighbourhood", "hamlet">>),
                 "city", <<"city", "town", "village", "township", "municipality", "city_district">>)

\* lines 1220-1291: street number to region
ParseAddress(p) == FromAddress(ParsePostalTown(RewriteCity(ParseCity(ParseStreet(p)))), "region", "state")

\* the second "-" segment of an ISO3166-2 code, upper-cased; without "-" an IndexError
SetStateAbbr(p, parts) ==
    IF Len(parts) < 2 THEN Raise(p.a) ELSE Go(set_attr(p.a, "state_abbr", Str(Upper(parts[2]))))

\* lines 1292-1302: state_abbr from ISO3166-2-lvl4
ParseStateAbbr(p) ==
    IF p.raised THEN p
    ELSE IF IsNone(Address(p.a)) THEN Raise(p.a)
    ELSE IF ~InDict("ISO3166-2-lvl4", Address(p.a)) THEN p
    ELSE SetStateAbbr(p, Split(DictGet(Address(p.a), "ISO3166-2-lvl4").s, "-"))

\* if key in osm_dict: set_attr(attr, osm_dict[key])
FromOsmDict(p, attr, key) ==
    IF p.raised THEN p
    ELSE IF InDict(key, OsmDict(p.a)) THEN Go(set_attr(p.a, attr, DictGet(OsmDict(p.a), key)))
    ELSE p

\* lines 1324-1325: osm_id = str(osm_dict["osm_id"])
ParseOsmId(p) ==
    IF p.raised THEN p
    ELSE IF InDict("osm_id", OsmDict(p.a))
    THEN Go(set_attr(p.a, "osm_id", Str(StrOfNat(DictGet(OsmDict(p.a), "osm_id").n))))
    ELSE p

\* lines 1303-1322: county, country, postal code and formatted address
ParseCountry(p) ==
    FromOsmDict(FromAddress(FromAddress(FromAddress(p, "county", "county"), "country", "country"),
                            "postal_code", "postcode"),
                "formatted_address", "display_name")

\* lines 1303-1327: county to osm_type
ParseRest(p) == FromOsmDict(ParseOsmId(ParseCountry(p)), "osm_type", "osm_type")

\* the characters that end the first route number of a street reference
exclude_chars == <<",", "\\", "/", ";", ":">>

\* lines 1344-1348: lowest_nums holds int(find_num) for every delimiter found, where
\* find_num := street_ref.find(char) != -1 binds the comparison, so each entry is int(True)
LowestNum(street_ref) ==
    LET lowest_nums == {1 : i \in {j \in DOMAIN exclude_chars : Find(street_ref, exclude_chars[j]) # -1}}
    IN  CHOOSE k \in lowest_nums : \A j \in lowest_nums : k <= j

\* lines 1335-1349: the street reference cut at lowest_num when it holds a delimiter
CleanStreetRef(street_ref) ==
    IF \E i \in DOMAIN exclude_chars : Contains(street_ref, exclude_chars[i])
    THEN SliceTo(street_ref, LowestNum(street_ref))
    ELSE street_ref

\* lines 1329-1353: street_ref of a highway
ParseStreetRef(p) ==
    IF p.raised THEN p
    ELSE IF ~is_attr_blank(p.a, "place_category")
            /\ Lower(get_attr(p.a, "place_category").s) = "highway"
            /\ InDict("namedetails", OsmDict(p.a))
            /\ InDict("ref", NameDetails(p.a))
    THEN Go(set_attr(p.a, "street_ref", Str(CleanStreetRef(DictGet(NameDetails(p.a), "ref").s))))
    ELSE p

parse_osm_dict(a) ==
    ParseStreetRef(ParseRest(ParseStateAbbr(ParseAddress(ParseNativeValue(ParseName(
        ParseCategory(ParseType(Go(a)))))))))

(***************************************************************************)
(* Driving status                                                          *)
(***************************************************************************)
\* driving judged by direction and place alone
IsDrivingAnywhere(a) ==
    /\ get_attr(a, "direction_of_travel") # Str("stationary")
    /\ (get_attr(a, "place_category") = Str("highway") \/ get_attr(a, "place_type") = Str("motorway"))

\* driving judged without the direction of travel
IsDrivingWhenStationary(a) ==
    ~in_zone(a)
    /\ (get_attr(a, "place_category") = Str("highway") \/ get_attr(a, "place_type") = Str("motorway"))

\* lines 1159-1167: not in a zone, moving, and on a highway or motorway
IsDriving(a) ==
    ~in_zone(a)
    /\ get_attr(a, "direction_of_travel") # Str("stationary")
    /\ (get_attr(a, "place_category") = Str("highway") \/ get_attr(a, "place_type") = Str("motorway"))

get_driving_status(a) == set_attr(a, "is_driving", Bool(IsDriving(a)))

(***************************************************************************)
(* State formatter                                                         *)
(***************************************************************************)
\* PLACE_NAME_DUPLICATE_LIST of const.py: the attributes a place name may duplicate
PLACE_NAME_DUPLICATE_LIST ==
    {"place_neighbourhood", "street", "city", "postal_town", "county", "region", "country"}

\* use_place_name left set when there is a place name that duplicates no other attribute
UsePlaceNameUnlessDuplicate(a) ==
    /\ ~is_attr_blank(a, "place_name")
    /\ ~\E attr \in PLACE_NAME_DUPLICATE_LIST :
            ~is_attr_blank(a, attr) /\ get_attr(a, attr) = get_attr(a, "place_name")

\* lines 1372-1389: use_place_name after the duplicate check; both branches clear it
use_place_name(a) ==
    IF ~is_attr_blank(a, "place_name")
       /\ \E attr \in PLACE_NAME_DUPLICATE_LIST :
             ~is_attr_blank(a, attr) /\ get_attr(a, attr) = get_attr(a, "place_name")
    THEN FALSE
    ELSE FALSE

\* items + [item] if cond else items
AppendIf(items, cond, item) == IF cond THEN Append(items, item) ELSE items

NotBlankAndLowerIs(a, attr, values) ==
    ~is_attr_blank(a, attr) /\ Lower(get_attr(a, attr).s) \in values

\* lines 1396-1414: the place type or category label
FormattedLabel(a) ==
    IF ~is_attr_blank(a, "place_type")
       /\ Lower(get_attr(a, "place_type").s) # "unclassified"
       /\ Lower(get_attr(a, "place_category").s) # "highway"
    THEN <<Strip(Replace(Replace(Title(get_attr(a, "place_type").s), "Proposed", ""), "Construction", ""))>>
    ELSE IF ~is_attr_blank(a, "place_category") /\ Lower(get_attr(a, "place_category").s) # "highway"
    THEN <<Strip(Title(get_attr(a, "place_category").s))>>
    ELSE <<>>

\* line 1399 reads place_category.lower() of a blank category: AttributeError
FormattedLabelRaises(a) ==
    ~is_attr_blank(a, "place_type")
    /\ Lower(get_attr(a, "place_type").s) # "unclassified"
    /\ is_attr_blank(a, "place_category")

\* lines 1416-1427: the street reference of a motorway or trunk road, else the street
StreetName(a) ==
    IF NotBlankAndLowerIs(a, "place_category", {"highway"})
       /\ NotBlankAndLowerIs(a, "place_type", {"motorway", "trunk"})
       /\ ~is_attr_blank(a, "street_ref")
    THEN Strip(get_attr(a, "street_ref").s)
    ELSE Strip(get_attr(a, "street").s)

\* lines 1428-1434: the street with its number in front
WithStreetNumber(a, street) ==
    IF is_attr_blank(a, "street_number") THEN <<street>>
    ELSE <<Strip(get_attr(a, "street_number").s) \o " " \o street>>

\* lines 1415-1434: the street, with its number
FormattedStreet(a) == IF is_attr_blank(a, "street") THEN <<>> ELSE WithStreetNumber(a, StreetName(a))

\* lines 1435-1442: the neighbourhood of a house
FormattedNeighbourhood(a) ==
    IF NotBlankAndLowerIs(a, "place_type", {"house"}) /\ ~is_attr_blank(a, "place_neighbourhood")
    THEN <<Strip(get_attr(a, "place_neighbourhood").s)>>
    ELSE <<>>

\* lines 1446-1453: city or county, then the state abbreviation
FormattedCity(a) ==
    (IF ~is_attr_blank(a, "city") THEN <<Strip(Replace(get_attr(a, "city").s, " Township", ""))>>
     ELSE IF ~is_attr_blank(a, "county") THEN <<Strip(get_attr(a, "county").s)>>
     ELSE <<>>)
    \o (IF ~is_attr_blank(a, "state_abbr") THEN <<get_attr(a, "state_abbr").s>> ELSE <<>>)

\* formatted_place_array
FormattedPlaceArray(a) ==
    IF ~in_zone(a)
    THEN AppendIf(<<>>, Truthy(get_attr(a, "is_driving")) /\ InList("driving", get_attr(a, "display_options").l),
                  "Driving")
         \o (IF ~use_place_name(a)
             THEN FormattedLabel(a) \o FormattedStreet(a) \o FormattedNeighbourhood(a)
             ELSE <<Strip(get_attr(a, "place_name").s)>>)
         \o FormattedCity(a)
    ELSE <<Strip(get_attr(a, "devicetracker_zone_name").s)>>

build_formatted_place(a) ==
    IF ~in_zone(a) /\ ~use_place_name(a) /\ FormattedLabelRaises(a) THEN Raise(a)
    ELSE Go(set_attr(a, "formatted_place",
                     Str(Strip(Replace(Replace(Join(FormattedPlaceArray(a), ", "), "\n", " "), "  ", " ")))))

\* [get_attr(attr)] if the attribute is not blank and cond holds, else []
Shown(a, cond, attr) == IF cond /\ ~is_attr_blank(a, attr) THEN <<get_attr(a, attr).s>> ELSE <<>>

\* lines 1477-1488: zone name, else zone
DisplayZone(a, opts) ==
    IF InList("zone_name", opts) /\ ~InList("do_not_show_not_home", opts)
       /\ ~is_attr_blank(a, "devicetracker_zone_name")
    THEN <<get_attr(a, "devicetracker_zone_name").s>>
    ELSE IF InList("zone", opts) /\ ~InList("do_not_show_not_home", opts)
            /\ ~is_attr_blank(a, "devicetracker_zone")
    THEN <<get_attr(a, "devicetracker_zone").s>>
    ELSE <<>>

\* lines 1492-1519: the "place" group, else street number and street
DisplayPlace(a, opts) ==
    IF InList("place", opts)
    THEN Shown(a, get_attr(a, "place_name") # get_attr(a, "street"), "place_name")
         \o Shown(a, ~NotBlankAndLowerIs(a, "place_category", {"place"}), "place_category")
         \o Shown(a, ~NotBlankAndLowerIs(a, "place_type", {"yes"}), "place_type")
         \o Shown(a, TRUE, "place_neighbourhood")
         \o Shown(a, TRUE, "street_number")
         \o Shown(a, TRUE, "street")
    ELSE Shown(a, InList("street_number", opts), "street_number")
         \o Shown(a, InList("street", opts), "street")

\* user_display with the city in front when it is the first option listed
UserDisplayCityFirst(a, opts) ==
    Shown(a, opts # <<>> /\ Head(opts) = "city", "city")
    \o AppendIf(<<>>, InList("driving", opts) /\ Truthy(get_attr(a, "is_driving")), "Driving")
    \o DisplayZone(a, opts)
    \o Shown(a, InList("place_name", opts), "place_name")
    \o DisplayPlace(a, opts)
    \o Shown(a, InList("city", opts) /\ Head(opts) # "city", "city")
    \o Shown(a, InList("county", opts), "county")
    \o Shown(a, InList("state", opts) \/ InList("region", opts), "region")
    \o Shown(a, InList("postal_code", opts), "postal_code")
    \o Shown(a, InList("country", opts), "country")
    \o Shown(a, InList("formatted_address", opts), "formatted_address")

\* lines 1473-1537: user_display in the fixed order
UserDisplay(a, opts) ==
    AppendIf(<<>>, InList("driving", opts) /\ Truthy(get_attr(a, "is_driving")), "Driving")
    \o DisplayZone(a, opts)
    \o Shown(a, InList("place_name", opts), "place_name")
    \o DisplayPlace(a, opts)
    \o Shown(a, InList("city", opts), "city")
    \o Shown(a, InList("county", opts), "county")
    \o Shown(a, InList("state", opts) \/ InList("region", opts), "region")
    \o Shown(a, InList("postal_code", opts), "postal_code")
    \o Shown(a, InList("country", opts), "country")
    \o Shown(a, InList("formatted_address", opts), "formatted_address")

\* the names locals() holds inside the do_not_reorder loop before target_option is bound
LocalNames == {"self", "display_options", "user_display", "option"}

\* lines 1542-1548: the loop over the options left.  A state is [out: user_display,
\* bound: whether target_option is bound, target: its value, raised].
RECURSIVE ReorderLoop(_, _)
ReorderLoop(opts, st) ==
    IF opts = <<>> \/ st.raised THEN st
    ELSE LET option == Head(opts)
             bound == st.bound \/ option \in {"state", "place_neighborhood"}
             target == IF option = "place_neighborhood" THEN "place_neighbourhood"
                       ELSE IF option = "state" THEN "region"
                       ELSE st.target
             inLocals == option \in LocalNames \/ (bound /\ option = "target_option")
         IN  ReorderLoop(Tail(opts),
                         IF ~inLocals THEN [st EXCEPT !.bound = bound, !.target = target]
                         ELSE IF ~bound THEN [st EXCEPT !.raised = TRUE]
                         ELSE [out |-> Append(st.out, target), bound |-> bound,
                               target |-> target, raised |-> FALSE])

\* lines 1550-1551: the native value joined from user_display, when it holds anything
SetNativeValueFrom(a, user_display) ==
    IF user_display # <<>>
    THEN Go(set_attr(a, "native_value", Str(Join(user_display, ", "))))
    ELSE Go(a)

\* lines 1542-1551 once the loop over the options left has ended in loop
AfterReorderLoop(a, loop) == IF loop.raised THEN Raise(a) ELSE SetNativeValueFrom(a, loop.out)

\* lines 1539-1551: do_not_reorder is removed from the stored list and the rest looped over
Reordered(a, left) ==
    AfterReorderLoop(set_attr(a, "display_options", List(left)),
                     ReorderLoop(left, [out |-> <<>>, bound |-> FALSE, target |-> "", raised |-> FALSE]))

\* lines 1473-1551 for the list opts of display options
BuildFromOptions(a, opts) ==
    IF InList("do_not_reorder", opts) THEN Reordered(a, RemoveFirst(opts, "do_not_reorder"))
    ELSE SetNativeValueFrom(a, UserDisplay(a, opts))

\* build_state_from_display_options: the store it leaves and whether it raised
build_state_from_display_options(a) ==
    IF is_attr_blank(a, "display_options") THEN Raise(a)
    ELSE BuildFromOptions(a, get_attr(a, "display_options").l)

(***************************************************************************)
(* Extended attributes, change event, persisted snapshot                   *)
(***************************************************************************)
\* the result of get_extended_attr: the store, whether it raised, the requests issued
Extended(a, raised, reqs) == [a |-> a, raised |-> raised, reqs |-> reqs]

\* lines 1595-1606: wikidata_id from the extratags of the details
SetWikidataId(a) ==
    IF InDict("extratags", get_attr(a, "osm_details_dict"))
       /\ InDict("wikidata", DictGet(get_attr(a, "osm_details_dict"), "extratags"))
    THEN set_attr(a, "wikidata_id", DictGet(DictGet(get_attr(a, "osm_details_dict"), "extratags"), "wikidata"))
    ELSE a

\* a linked-data request whatever the details hold
GetWikidataAlways(a, env) ==
    Extended(set_attr(a, "wikidata_dict", env.wiki), FALSE, <<"details", "wikidata">>)

\* lines 1609-1618: the linked-data request, when there is a wikidata_id
GetWikidata(a, env) ==
    IF ~is_attr_blank(a, "wikidata_id")
    THEN Extended(set_attr(a, "wikidata_dict", env.wiki), FALSE, <<"details", "wikidata">>)
    ELSE Extended(a, FALSE, <<"details">>)

\* lines 1592-1618: the details received
ParseDetails(a, env) ==
    IF is_attr_blank(a, "osm_details_dict") THEN Extended(a, FALSE, <<"details">>)
    ELSE GetWikidata(set_attr(SetWikidataId(a), "wikidata_dict", EmptyDict), env)

\* get_extended_attr: env.details and env.wiki are what get_dict_from_url returns for the
\* details and the linked-data request
get_extended_attr(a, env) ==
    IF is_attr_blank(a, "osm_id") \/ is_attr_blank(a, "osm_type") THEN Extended(a, FALSE, <<>>)
    ELSE IF Lower(get_attr(a, "osm_type").s) \notin {"node", "way", "relation"}
    THEN Extended(a, TRUE, <<>>)
    ELSE ParseDetails(set_attr(a, "osm_details_dict", env.details), env)

\* EVENT_ATTRIBUTE_LIST of const.py: the attributes copied into the change event
EVENT_ATTRIBUTE_LIST ==
    {"latitude", "longitude", "devicetracker_zone", "devicetracker_zone_name",
     "direction_of_travel", "distance_from_home_m", "place_name", "street", "city",
     "formatted_place", "map_link", "last_changed"}

\* fire_event_data: the event data handed to hass.bus.fire
fire_event_data(a, prev_last_place_name) ==
    LET keys == {k \in EVENT_ATTRIBUTE_LIST : ~is_attr_blank(a, k)}
                \cup (IF ~is_attr_blank(a, "name") THEN {"entity"} ELSE {})
                \cup (IF ~is_attr_blank(a, "previous_state") THEN {"from_state"} ELSE {})
                \cup (IF ~is_attr_blank(a, "native_value") THEN {"to_state"} ELSE {})
                \cup (IF ~is_attr_blank(a, "last_place_name")
                         /\ get_attr(a, "last_place_name") # prev_last_place_name
                      THEN {"last_place_name"} ELSE {})
    IN  [k \in keys |->
            CASE k = "entity" -> get_attr(a, "name")
              [] k = "from_state" -> get_attr(a, "previous_state")
              [] k = "to_state" -> get_attr(a, "native_value")
              [] OTHER -> get_attr(a, k)]

\* isinstance(v, datetime): the store holds str(now), never a datetime
IsDatetime(v) == "dt" \in DOMAIN v

\* write_sensor_to_json: the dict json.dump writes
write_sensor_to_json(a) == [k \in {j \in DOMAIN a : ~IsDatetime(a[j])} |-> a[k]]

\* CONFIG_ATTRIBUTES_LIST and JSON_IGNORE_ATTRIBUTE_LIST of const.py: never imported
CONFIG_ATTRIBUTES_LIST ==
    {"name", "options", "language", "extended_attr", "show_time", "map_provider", "map_zoom"}
JSON_IGNORE_ATTRIBUTE_LIST == {"osm_dict", "osm_details_dict", "wikidata_dict"}

\* JSON_ATTRIBUTE_LIST of const.py: the attributes imported from the snapshot
JSON_ATTRIBUTE_LIST ==
    {"latitude", "longitude", "latitude_old", "longitude_old", "current_location",
     "previous_location", "home_location", "home_latitude", "home_longitude",
     "gps_accuracy", "devicetracker_zone", "devicetracker_zone_name",
     "distance_from_home_m", "distance_from_home_km", "distance_from_home_mi",
     "distance_traveled_m", "distance_traveled_mi", "direction_of_travel",
     "street_number", "street", "street_ref", "city", "postal_town", "postal_code", "region",
     "state_abbr", "country", "county", "formatted_address", "place_type", "place_name",
     "place_category", "place_neighbourhood", "formatted_place", "osm_id", "osm_type",
     "wikidata_id", "map_link", "is_driving", "display_options", "native_value",
     "previous_state", "last_place_name", "last_changed", "last_updated", "updates_skipped"}

\* for attr in attrs: if attr in json_attr: self.set_attr(attr, json_attr[attr])
SetAll(a, json_attr, attrs) ==
    [k \in attrs \cap DOMAIN json_attr |-> json_attr[k]] @@ a

\* the persisted JSON file of the entity: absent, or holding the dict last written
NoFile == [exists |-> FALSE, data |-> <<>>]
FileOf(data) == [exists |-> TRUE, data |-> data]

\* a file that is never read
NoDictFromJsonFile(file) == <<>>

\* get_dict_from_json_file: the dict read, {} when the file cannot be opened
get_dict_from_json_file(file) == IF file.exists THEN file.data ELSE <<>>

\* lines 653-654: the host-visible state is the imported native value, when there is one
Imported(a, host) ==
    [a |-> a, host |-> IF ~is_attr_blank(a, "native_value") THEN get_attr(a, "native_value") ELSE host]

\* an import that leaves initial_update as the constructor set it
ImportKeepingInitial(a, host, json_attr) ==
    IF DOMAIN json_attr = {} THEN [a |-> a, host |-> host]
    ELSE Imported(SetAll(a, json_attr, JSON_ATTRIBUTE_LIST), host)

\* import_attributes_from_json: the store and the host-visible state it leaves
import_attributes_from_json(a, host, json_attr) ==
    IF DOMAIN json_attr = {} THEN [a |-> a, host |-> host]
    ELSE Imported(SetAll(set_attr(a, "initial_update", Bool(FALSE)), json_attr, JSON_ATTRIBUTE_LIST), host)

(***************************************************************************)
(* Construction.  A configuration is [options, show_time, extended_attr,   *)
(* language, home]: home is the location of the home zone, or None when    *)
(* the zone gives no coordinates.                                          *)
(***************************************************************************)
\* lines 401-530: the configuration stored in the attributes
ConfigAttributes(config) ==
    [k \in {"initial_update", "name", "options", "map_provider", "map_zoom",
            "language", "extended_attr", "show_time", "updates_skipped"} |->
        CASE k = "initial_update" -> Bool(TRUE)
          [] k = "name" -> Str("places")
          [] k = "options" -> Str(Lower(config.options))
          [] k = "map_provider" -> Str("apple")
          [] k = "map_zoom" -> Num(18)
          [] k = "language" ->
                IF IsNone(config.language) THEN None
                ELSE Str(Strip(Replace(config.language.s, " ", "")))
          [] k = "extended_attr" -> Bool(config.extended_attr)
          [] k = "show_time" -> Bool(config.show_time)
          [] OTHER -> Num(0)]

\* the coordinates of the home zone, when it has them
SetHome(a, home) ==
    IF IsNone(home) THEN a
    ELSE set_attr(set_attr(a, "home_latitude", Coord(home.loc[1])), "home_longitude", Coord(home.loc[2]))

\* Places.__init__ up to the import of the snapshot
InitialAttributes(config) == SetHome(ConfigAttributes(config), config.home)

\* Places.__init__ after the import: the attributes are cleaned up
Constructed(imp) == [a |-> cleanup_attributes(imp.a), host |-> imp.host]

\* Places.__init__: the store and the host-visible state of a new entity
Construct(config, file) ==
    Constructed(import_attributes_from_json(InitialAttributes(config), None,
                                            get_dict_from_json_file(file)))

(***************************************************************************)
(* Update pass.  env is what the pass reads from outside: env.tr the       *)
(* tracked entity [lat, lon, acc, state, zone_name], env.resp what         *)
(* get_dict_from_url returns for the geocode request ({} on any failure),  *)
(* env.details and env.wiki the same for the two optional requests,        *)
(* env.now the wall clock "HH:MM".                                         *)
(***************************************************************************)
\* lines 1924-1929: previous_state, the native value without its time suffix
SetPreviousState(a) ==
    IF ~is_attr_blank(a, "native_value") /\ Truthy(get_attr(a, "show_time"))
    THEN set_attr(a, "previous_state", Str(SliceTo(get_attr(a, "native_value").s, -SinceLen)))
    ELSE set_attr(a, "previous_state", get_attr(a, "native_value"))

\* if is_float(get_attr(attr)): set_attr(old, str(get_attr(attr)))
SetOld(a, old, attr) ==
    IF is_float(get_attr(a, attr)) THEN set_attr(a, old, StrOfCoord(get_attr(a, attr))) ELSE a

\* lines 1924-1933: previous_state and the old coordinates
SavePrevious(a) ==
    SetOld(SetOld(SetPreviousState(a), "latitude_old", "latitude"), "longitude_old", "longitude")

\* if is_float(v): set_attr(attr, str(v))
SetIfFloat(a, attr, v) == IF is_float(v) THEN set_attr(a, attr, StrOfCoord(v)) ELSE a

\* lines 1952-1980: coordinates, accuracy and zone read from the tracked entity
ReadTracker(a, tr) ==
    get_zone_details(get_gps_accuracy(SetIfFloat(SetIfFloat(a, "latitude", tr.lat),
                                                 "longitude", tr.lon), tr), tr)

\* last_place_name after parsing, compared with the place name only
RetainComparingPlaceOnly(a, prev_last_place_name) ==
    IF Truthy(get_attr(a, "initial_update"))
    THEN set_attr(a, "last_place_name", prev_last_place_name)
    ELSE IF get_attr(a, "last_place_name") = get_attr(a, "place_name")
    THEN set_attr(a, "last_place_name", prev_last_place_name)
    ELSE a

\* lines 2029-2057: last_place_name after parsing
RetainLastPlaceName(a, prev_last_place_name) ==
    IF Truthy(get_attr(a, "initial_update"))
    THEN set_attr(a, "last_place_name", prev_last_place_name)
    ELSE IF get_attr(a, "last_place_name") = get_attr(a, "place_name")
            \/ get_attr(a, "last_place_name") = get_attr(a, "devicetracker_zone_name")
    THEN set_attr(a, "last_place_name", prev_last_place_name)
    ELSE a

RECURSIVE StripAll(_)
StripAll(items) == IF items = <<>> THEN <<>> ELSE <<Strip(Head(items))>> \o StripAll(Tail(items))

\* lines 2065-2070: the list of display options
DisplayOptions(a) ==
    IF ~is_attr_blank(a, "options") THEN StripAll(Split(get_attr(a, "options").s, ",")) ELSE <<>>

\* lines 2065-2070: display_options stored
SetDisplayOptions(a) == set_attr(a, "display_options", List(DisplayOptions(a)))

\* lines 2075-2078: the native value is the formatted place
UseFormattedPlace(r) ==
    IF r.raised THEN r ELSE Go(set_attr(r.a, "native_value", get_attr(r.a, "formatted_place")))

\* lines 2074-2109 for the list display_options
BuildStateFor(a, display_options) ==
    IF InList("formatted_place", display_options) THEN UseFormattedPlace(build_formatted_place(a))
    ELSE IF ~in_zone(a) THEN build_state_from_display_options(a)
    ELSE IF (InList("zone", display_options) /\ ~is_attr_blank(a, "devicetracker_zone"))
            \/ is_attr_blank(a, "devicetracker_zone_name")
    THEN Go(set_attr(a, "native_value", get_attr(a, "devicetracker_zone")))
    ELSE IF ~is_attr_blank(a, "devicetracker_zone_name")
    THEN Go(set_attr(a, "native_value", get_attr(a, "devicetracker_zone_name")))
    ELSE Go(a)

\* lines 2074-2109: the new native value
BuildState(a) == BuildStateFor(a, DisplayOptions(a))

\* s.lower().strip()
Norm(s) == Strip(Lower(s))

\* a decision that leaves out the comparison of the two values as they are
ShouldCommitComparingUnspaced(a) ==
    \/ /\ ~is_attr_blank(a, "previous_state")
       /\ ~is_attr_blank(a, "native_value")
       /\ Norm(Replace(get_attr(a, "previous_state").s, " ", "")) # Norm(get_attr(a, "native_value").s)
       /\ Norm(get_attr(a, "previous_state").s) # Norm(get_attr(a, "devicetracker_zone").s)
    \/ is_attr_blank(a, "previous_state")
    \/ is_attr_blank(a, "native_value")
    \/ Truthy(get_attr(a, "initial_update"))

\* lines 2116-2133: whether the new state is committed
ShouldCommit(a) ==
    \/ /\ ~is_attr_blank(a, "previous_state")
       /\ ~is_attr_blank(a, "native_value")
       /\ Norm(get_attr(a, "previous_state").s) # Norm(get_attr(a, "native_value").s)
       /\ Norm(Replace(get_attr(a, "previous_state").s, " ", "")) # Norm(get_attr(a, "native_value").s)
       /\ Norm(get_attr(a, "previous_state").s) # Norm(get_attr(a, "devicetracker_zone").s)
    \/ is_attr_blank(a, "previous_state")
    \/ is_attr_blank(a, "native_value")
    \/ Truthy(get_attr(a, "initial_update"))

\* lines 2138-2162: the native value cut to its longest length, with the time when shown
FinalNativeValue(a, current_time) ==
    IF ~is_attr_blank(a, "native_value")
    THEN IF Truthy(get_attr(a, "show_time"))
         THEN set_attr(a, "native_value",
                       Str(SliceTo(get_attr(a, "native_value").s, MaxStateLen - SinceLen)
                           \o " (since " \o current_time \o ")"))
         ELSE set_attr(a, "native_value", Str(SliceTo(get_attr(a, "native_value").s, MaxStateLen)))
    ELSE clear_attr(a, "native_value")

\* str(now) and "%02d:%02d" % (now.hour, now.minute) for a clock reading "HH:MM"
StrOfNow(now) == Str("2022-10-01 " \o now \o ":00")
CurrentTime(now) == now

\* a revert to the snapshot with the initial-update flag set again
RevertToInitial(previous_attr, a) == set_attr(previous_attr, "initial_update", Bool(TRUE))

\* a revert that keeps the coordinates of the pass
RevertKeepingCoordinates(previous_attr, a) ==
    [k \in DOMAIN previous_attr \cup (DOMAIN a \cap {"latitude", "longitude"}) |->
        IF k \in DOMAIN a \cap {"latitude", "longitude"} THEN a[k] ELSE previous_attr[k]]

\* a revert that keeps the store of the pass
KeepStore(previous_attr, a) == a

\* self._internal_attr = previous_attr: the store after a revert
RevertTo(previous_attr, a) == previous_attr

\* a pass end that leaves last_updated as it is
StampOmitted(a, now) == a

\* line 2189: the stamp every completed pass leaves
StampLastUpdated(a, now) == set_attr(a, "last_updated", StrOfNow(now))

\* the event of a pass: none, or the one hass.bus.fire sent with data
NoEvent == [fired |-> FALSE, data |-> <<>>]
EventDropped(data) == NoEvent
EventOf(data) == [fired |-> TRUE, data |-> data]

\* A pass under way is [a, kind, rule, reqs]: the store, how the pass has ended ("" while it
\* runs), the gate rule applied ("" before the gate), the requests issued so far.
Running(a, rule, reqs) == [a |-> a, kind |-> "", rule |-> rule, reqs |-> reqs]
Ended(a, kind, rule, reqs) == [a |-> a, kind |-> kind, rule |-> rule, reqs |-> reqs]

\* line 1986: the gate has answered g; without a zone the pass goes no further
AfterGate(g) ==
    IF ~g.proceed THEN Ended(g.a, "gated", g.rule, <<>>)
    ELSE IF is_attr_blank(g.a, "devicetracker_zone") THEN Ended(g.a, "nozone", g.rule, <<>>)
    ELSE Running(g.a, g.rule, <<>>)

\* lines 1981-1986: the gate is asked when the coordinates allow an update
Gate(coords) ==
    IF coords.raised THEN Ended(coords.a, "raised", "", <<>>)
    ELSE IF ~coords.proceed THEN Ended(coords.a, "abort", "", <<>>)
    ELSE AfterGate(determine_if_update_needed(coords.a))

\* line 2026: a blank response ends the pass
AfterFetch(p, a) ==
    IF is_attr_blank(a, "osm_dict") THEN Ended(a, "nofetch", p.rule, <<"osm">>)
    ELSE Running(a, p.rule, <<"osm">>)

\* lines 2002-2026: reset, map link, and the geocode request answered by env.resp
Fetch(p, env) ==
    IF p.kind # "" THEN p
    ELSE AfterFetch(p, set_attr(get_map_link(_reset_attributes(p.a)), "osm_dict", env.resp))

\* the pass after a step that left r = [a, raised]
AfterStep(p, r) ==
    IF r.raised THEN Ended(r.a, "raised", p.rule, p.reqs) ELSE Running(r.a, p.rule, p.reqs)

\* line 2028: the response is parsed
Parse(p) == IF p.kind # "" THEN p ELSE AfterStep(p, parse_osm_dict(p.a))

\* lines 2029-2072: last_place_name, display_options and the driving status
Prepare(p, prev_last_place_name) ==
    IF p.kind # "" THEN p
    ELSE Running(get_driving_status(SetDisplayOptions(RetainLastPlaceName(p.a, prev_last_place_name))),
                 p.rule, p.reqs)

\* line 2111: last_changed
SetLastChanged(p, now) ==
    IF p.kind # "" THEN p ELSE Running(set_attr(p.a, "last_changed", StrOfNow(now)), p.rule, p.reqs)

\* lines 2074-2111: the new native value is built
Build(p, now) == IF p.kind # "" THEN p ELSE SetLastChanged(AfterStep(p, BuildState(p.a)), now)

\* lines 2116-2133 and 2170-2171: whether the new state is committed
Decide(p) ==
    IF p.kind # "" THEN p
    ELSE IF ShouldCommit(p.a) THEN p
    ELSE Ended(p.a, "revert", p.rule, p.reqs)

\* the pass after get_extended_attr has left ext = [a, raised, reqs]
AfterExtend(p, ext) ==
    IF ext.raised THEN Ended(ext.a, "raised", p.rule, p.reqs \o ext.reqs)
    ELSE Running(ext.a, p.rule, p.reqs \o ext.reqs)

\* lines 2135-2136: the extended attributes of a state about to be committed
Extend(p, env) ==
    IF p.kind # "" THEN p
    ELSE IF Truthy(get_attr(p.a, "extended_attr")) THEN AfterExtend(p, get_extended_attr(p.a, env))
    ELSE p

\* lines 2163-2166: the host-visible state after a commit
HostOf(a) == IF ~is_attr_blank(a, "native_value") THEN get_attr(a, "native_value") ELSE None

\* lines 2137-2162: the store cleaned up, with the final native value
Finalize(p, now) ==
    IF p.kind # "" THEN p
    ELSE Running(FinalNativeValue(cleanup_attributes(p.a), CurrentTime(now)), p.rule, p.reqs)

\* the outcome of a pass: the store, host-visible state and file it leaves, how it ended,
\* the gate rule applied ("" when the gate was not reached), the event fired, whether the
\* snapshot was written, and the requests issued in order
Outcome(a, host, file, kind, p, event) ==
    [a |-> a, host |-> host, file |-> file, kind |-> kind, rule |-> p.rule,
     event |-> event, wrote |-> kind = "commit", reqs |-> p.reqs]

\* a commit that writes the snapshot before it clears initial_update
CommitWritingFirst(p, now, prev_last_place_name) ==
    Outcome(StampLastUpdated(set_attr(p.a, "initial_update", Bool(FALSE)), now),
            HostOf(p.a),
            FileOf(write_sensor_to_json(p.a)),
            "commit", p, EventOf(fire_event_data(p.a, prev_last_place_name)))

\* lines 2163-2169 and 2189: host state, event, initial_update, snapshot, last_updated
Commit(p, now, prev_last_place_name) ==
    Outcome(StampLastUpdated(set_attr(p.a, "initial_update", Bool(FALSE)), now),
            HostOf(p.a),
            FileOf(write_sensor_to_json(set_attr(p.a, "initial_update", Bool(FALSE)))),
            "commit", p, EventOf(fire_event_data(p.a, prev_last_place_name)))

\* a pass end that shows the native value of the pass whether or not it commits
FinishShowingAlways(p, previous_attr, host, file, now, prev_last_place_name) ==
    CASE p.kind = "" -> Commit(p, now, prev_last_place_name)
      [] p.kind = "raised" -> Outcome(p.a, host, file, p.kind, p, NoEvent)
      [] p.kind = "nofetch" -> Outcome(StampLastUpdated(p.a, now), HostOf(p.a), file, p.kind, p, NoEvent)
      [] OTHER -> Outcome(StampLastUpdated(RevertTo(previous_attr, p.a), now), HostOf(p.a), file,
                          p.kind, p, NoEvent)

\* lines 2163-2189: how the pass p leaves the entity.  An exception leaves the store as it
\* is; a blank response keeps the store; every other pass that commits nothing reverts it.
Finish(p, previous_attr, host, file, now, prev_last_place_name) ==
    CASE p.kind = "" -> Commit(p, now, prev_last_place_name)
      [] p.kind = "raised" -> Outcome(p.a, host, file, p.kind, p, NoEvent)
      [] p.kind = "nofetch" -> Outcome(StampLastUpdated(p.a, now), host, file, p.kind, p, NoEvent)
      [] OTHER -> Outcome(StampLastUpdated(RevertTo(previous_attr, p.a), now), host, file,
                          p.kind, p, NoEvent)

(***************************************************************************)
(* The world the entity runs in                                            *)
(***************************************************************************)
\* the longest run of operations on the entity explored
MaxSteps == 3

\* a place name longer than the longest native value
LongName == Rep("Llanfairpwll", 22)

\* geocode responses: a house, a motorway, a place with a long name, and a response that
\* carries only namedetails; {} is what get_dict_from_url returns when the fetch fails
HouseResponse ==
    Dict([k \in {"osm_type", "osm_id", "category", "type", "display_name", "address", "namedetails"} |->
            CASE k = "osm_type" -> Str("way")
              [] k = "osm_id" -> Num(7)
              [] k = "category" -> Str("place")
              [] k = "type" -> Str("house")
              [] k = "display_name" -> Str("12 Main St, Springfield, IL, USA")
              [] k = "address" ->
                    Dict([j \in {"house_number", "road", "city", "state", "ISO3166-2-lvl4",
                                 "country", "postcode"} |->
                            CASE j = "house_number" -> Str("12")
                              [] j = "road" -> Str("Main St")
                              [] j = "city" -> Str("Springfield")
                              [] j = "state" -> Str("Illinois")
                              [] j = "ISO3166-2-lvl4" -> Str("US-IL")
                              [] j = "country" -> Str("USA")
                              [] OTHER -> Str("62704")])
              [] OTHER -> EmptyDict])

MotorwayResponse ==
    Dict([k \in {"osm_type", "osm_id", "category", "type", "display_name", "address", "namedetails"} |->
            CASE k = "osm_type" -> Str("way")
              [] k = "osm_id" -> Num(90)
              [] k = "category" -> Str("highway")
              [] k = "type" -> Str("motorway")
              [] k = "display_name" -> Str("I-90, Springfield, IL, USA")
              [] k = "address" ->
                    Dict([j \in {"road", "city", "ISO3166-2-lvl4"} |->
                            CASE j = "road" -> Str("Interstate 90")
                              [] j = "city" -> Str("Springfield")
                              [] OTHER -> Str("US-IL")])
              [] OTHER -> Dict([j \in {"name", "ref"} |->
                                  IF j = "name" THEN Str("Interstate 90") ELSE Str("I-90;US-20")])])

LongNameResponse ==
    Dict([k \in {"osm_type", "osm_id", "category", "type", "address", "namedetails"} |->
            CASE k = "osm_type" -> Str("node")
              [] k = "osm_id" -> Num(3)
              [] k = "category" -> Str("amenity")
              [] k = "type" -> Str("restaurant")
              [] k = "address" -> Dict([j \in {"road"} |-> Str("Main St")])
              [] OTHER -> Dict([j \in {"name"} |-> Str(LongName)])])

NameOnlyResponse ==
    Dict([k \in {"namedetails"} |-> Dict([j \in {"name"} |-> Str(LongName)])])

Responses == {EmptyDict, HouseResponse, MotorwayResponse, LongNameResponse, NameOnlyResponse}

\* the tracked entity [lat, lon, acc, state, zone_name]: its coordinates on the grid, its
\* gps_accuracy (None when it has none), its state and the name of its zone entity (None
\* without one).  It is at home, 5 m from home, 300 m from home with or without a fix, or
\* unavailable and without coordinates.
TrackerAt(lat, acc, state) ==
    [lat |-> Num(lat), lon |-> Num(0), acc |-> acc, state |-> state, zone_name |-> None]
Unavailable == [lat |-> None, lon |-> None, acc |-> None, state |-> "unavailable", zone_name |-> None]
Trackers ==
    {TrackerAt(0, None, "home"), TrackerAt(50, Num(50), "not_home"),
     TrackerAt(3000, Num(50), "not_home"), TrackerAt(3000, Num(0), "not_home"), Unavailable}

\* the wall clock "HH:MM" when the n-th operation runs
ClockAt(n) == (IF n < 2 THEN "0" ELSE "") \o StrOfNat(8 + n) \o ":30"

Environments(now) ==
    {[tr |-> tr, resp |-> resp, details |-> EmptyDict, wiki |-> EmptyDict, now |-> now] :
        tr \in Trackers, resp \in Responses}

\* the configurations of the entity
ConfigOf(options, show_time, extended_attr, language, home) ==
    [options |-> options, show_time |-> show_time, extended_attr |-> extended_attr,
     language |-> language, home |-> home]
Configs ==
    {ConfigOf("zone_name, place", FALSE, FALSE, None, Loc(0, 0)),
     ConfigOf("zone, street, city", TRUE, TRUE, Str("en"), Loc(0, 0)),
     ConfigOf("formatted_place", FALSE, FALSE, None, Loc(0, 0)),
     ConfigOf("zone_name, place", FALSE, FALSE, None, None)}

(***************************************************************************)
(* The entity as a state machine.  attr is _internal_attr, host is         *)
(* _attr_native_value, file the persisted snapshot, alive whether the      *)
(* entity exists.  last records the last operation: for an update pass the *)
(* store and host state it started from, its outcome, and (built) the pass *)
(* as it stood when the commit decision was due, and (shown) the display   *)
(* value the committed pass before it built.  hist records                 *)
(* whether the entity was constructed from a snapshot, whether a pass of   *)
(* it has committed, the number of operations run so far, and (shown) the  *)
(* display value its last committed pass built.  running                   *)
(* holds the passes that have begun and not ended, by the thread they run  *)
(* in, where passes are followed step by step.                             *)
(***************************************************************************)
VARIABLES config, attr, host, file, alive, last, hist, running

vars == <<config, attr, host, file, alive, last, hist, running>>

\* what a pass saw outside the entity: the tracked entity and what the geocode, details
\* and linked-data requests return
Seen(env) == [tr |-> env.tr, resp |-> env.resp, details |-> env.details, wiki |-> env.wiki]
Unseen == [tr |-> None, resp |-> None, details |-> None, wiki |-> None]

NotAPass(op) ==
    [op |-> op, pre |-> <<>>, preHost |-> None, preFile |-> NoFile, kind |-> "", rule |-> "",
     event |-> NoEvent, wrote |-> FALSE, reqs |-> <<>>, seen |-> Unseen, repeat |-> FALSE,
     built |-> Ended(<<>>, "none", "", <<>>), shown |-> None]

\* is_devicetracker_set: the tracked entity has float coordinates
is_devicetracker_set(tr) ==
    ~IsNone(tr.lat) /\ ~IsNone(tr.lon) /\ is_float(tr.lat) /\ is_float(tr.lon)

\* a new entity for config, built from the file as it is
Setup(c) ==
    \E made \in {Construct(c, file)} :
        /\ config' = c
        /\ attr' = made.a
        /\ host' = made.host
        /\ alive' = TRUE
        /\ last' = NotAPass("construct")
        /\ UNCHANGED file

Init ==
    /\ config \in Configs
    /\ file = NoFile
    /\ \E made \in {Construct(config, NoFile)} : attr = made.a /\ host = made.host
    /\ alive = TRUE
    /\ last = NotAPass("construct")
    /\ hist = [fromSnapshot |-> FALSE, committed |-> FALSE, steps |-> 0, shown |-> None]
    /\ running = <<>>

\* do_update after previous_attr = copy.deepcopy(self._internal_attr) (line 1913): the
\* rest of the pass, each step bound to what the step before it left
UpdateFrom(previous_attr, env) ==
    \E saved \in {SavePrevious(cleanup_attributes(attr))} :
    \E prev_last_place_name \in {get_attr(saved, "last_place_name")} :
    \E tracked \in {ReadTracker(saved, env.tr)} :
    \E coords \in {update_coordinates_and_distance(tracked)} :
    \E gate \in {Gate(coords)} :
    \E fetched \in {Fetch(gate, env)} :
    \E parsed \in {Parse(fetched)} :
    \E prepared \in {Prepare(parsed, prev_last_place_name)} :
    \E built \in {Build(prepared, env.now)} :
    \E extended \in {Extend(Decide(built), env)} :
    \E final \in {Finalize(extended, env.now)} :
    \E out \in {Finish(final, previous_attr, host, file, env.now, prev_last_place_name)} :
        /\ attr' = out.a
        /\ host' = out.host
        /\ file' = out.file
        /\ last' = [op |-> "pass", pre |-> attr, preHost |-> host, preFile |-> file,
                    kind |-> out.kind, rule |-> out.rule, event |-> out.event,
                    wrote |-> out.wrote, reqs |-> out.reqs, seen |-> Seen(env),
                    repeat |-> last.op = "pass" /\ last.seen = Seen(env), built |-> built,
                    shown |-> hist.shown]
        /\ hist' = [hist EXCEPT !.committed = @ \/ out.kind = "commit", !.steps = @ + 1,
                                !.shown = IF out.kind = "commit"
                                          THEN get_attr(built.a, "native_value") ELSE @]
        /\ UNCHANGED <<config, alive>>

\* do_update: one whole update pass that no other pass overlaps
do_update(env) == UpdateFrom(attr, env) /\ UNCHANGED running

\* tsc_update: the tracked entity changed state
TscUpdate ==
    /\ alive
    /\ hist.steps < MaxSteps
    /\ \E env \in Environments(ClockAt(hist.steps)) :
          IF is_devicetracker_set(env.tr) THEN do_update(env) ELSE UNCHANGED vars

\* async_update: the periodic scan, when the throttle lets it through
AsyncUpdate ==
    /\ alive
    /\ hist.steps < MaxSteps
    /\ \/ UNCHANGED vars
       \/ \E env \in Environments(ClockAt(hist.steps)) :
             IF is_devicetracker_set(env.tr) THEN do_update(env) ELSE UNCHANGED vars

\* the host restarts: the entity is constructed again with its configuration
Restart ==
    /\ alive
    /\ hist.steps < MaxSteps
    /\ Setup(config)
    /\ hist' = [fromSnapshot |-> file.exists, committed |-> FALSE, steps |-> hist.steps + 1, shown |-> None]
    /\ UNCHANGED running

\* async_will_remove_from_hass: the snapshot is deleted and the entity is gone
Remove ==
    /\ alive
    /\ hist.steps < MaxSteps
    /\ alive' = FALSE
    /\ file' = NoFile
    /\ last' = NotAPass("remove")
    /\ hist' = [hist EXCEPT !.steps = @ + 1]
    /\ UNCHANGED <<config, attr, host, running>>

\* the integration is set up again after a removal
Create ==
    /\ ~alive
    /\ hist.steps < MaxSteps
    /\ \E c \in Configs : Setup(c)
    /\ hist' = [fromSnapshot |-> FALSE, committed |-> FALSE, steps |-> hist.steps + 1, shown |-> None]
    /\ UNCHANGED running

Next == TscUpdate \/ AsyncUpdate \/ Restart \/ Remove \/ Create

Spec == Init /\ [][Next]_vars

(***************************************************************************)
(* The update gate on its own.  The store the gate reads is the one a pass *)
(* hands it: a prior store with a skip counter, the initial-update flag    *)
(* and the coordinates of the pass before (old), taken through the steps   *)
(* of do_update up to the gate for a tracker a few metres from home.       *)
(***************************************************************************)
\* the largest skip counter the gate is given
MaxSkipped == 5
\* the tracker's distance from home in decimetres: 0, under 1 m, around 10 m, 15 m
GateLatitudes == {0, 5, 9, 10, 95, 100, 150}
GateAccuracies == {None, Num(0), Num(50)}
GateTrackers == {TrackerAt(lat, acc, "not_home") : lat \in GateLatitudes, acc \in GateAccuracies}
GateConfig == ConfigOf("zone_name, place", FALSE, FALSE, None, Loc(0, 0))

\* the store before the pass: old is the latitude and longitude it holds (None for none)
Before(skipped, initial, old) ==
    set_attr(set_attr(SetIfFloat(SetIfFloat(InitialAttributes(GateConfig), "latitude", old),
                                 "longitude", old),
                      "initial_update", Bool(initial)),
             "updates_skipped", Num(skipped))

InitGate ==
    /\ config = GateConfig
    /\ \E skipped \in 0..MaxSkipped, initial \in BOOLEAN, old \in {None, Num(0)}, tr \in GateTrackers :
          \E coords \in {update_coordinates_and_distance(
                             ReadTracker(SavePrevious(Before(skipped, initial, old)), tr))} :
              coords.proceed /\ attr = coords.a
    /\ host = None
    /\ file = NoFile
    /\ alive = TRUE
    /\ last = NotAPass("input")
    /\ hist = [fromSnapshot |-> FALSE, committed |-> FALSE, steps |-> 0, shown |-> None]
    /\ running = <<>>

\* determine_if_update_needed applied to the store: last keeps the store it was given,
\* the branch taken and whether it returned True ("proceed") or False ("skip")
DetermineIfUpdateNeeded ==
    /\ last.op = "input"
    /\ \E g \in {determine_if_update_needed(attr)} :
          /\ attr' = g.a
          /\ last' = [NotAPass("gate") EXCEPT !.pre = attr, !.rule = g.rule,
                                             !.kind = IF g.proceed THEN "proceed" ELSE "skip"]
    /\ hist' = [hist EXCEPT !.steps = 1]
    /\ UNCHANGED <<config, host, file, alive, running>>

NextGate == DetermineIfUpdateNeeded

SpecGate == InitGate /\ [][NextGate]_vars

(***************************************************************************)
(* Properties of the update gate (checked under SpecGate)                  *)
(***************************************************************************)
\* the store holds a GPS accuracy and it is 0
AccuracyIsZero(a) == ~is_attr_blank(a, "gps_accuracy") /\ get_attr(a, "gps_accuracy") = Num(0)
InitialUpdateOf(a) == get_attr(a, "initial_update") = Bool(TRUE)
SkippedOf(a) == get_attr(a, "updates_skipped").n
\* distance traveled in decimetres
TraveledOf(a) == get_attr(a, "distance_traveled_m").n
\* not the initial update, accuracy not 0, current and previous location differ
MovedNonInitial(a) ==
    /\ ~InitialUpdateOf(a)
    /\ ~AccuracyIsZero(a)
    /\ get_attr(a, "current_location") # get_attr(a, "previous_location")

\* C1: whenever the GPS accuracy is present and equal to 0 the gate returns false, whatever
\* the initial-update flag, the locations, the distance traveled and the skip counter are.
C1_ZeroAccuracyCloses ==
    (last.op = "gate" /\ AccuracyIsZero(last.pre)) => last.kind = "skip"

C1_Witness ==
    /\ last.op = "gate"
    /\ AccuracyIsZero(last.pre)
    /\ InitialUpdateOf(last.pre)
    /\ SkippedOf(last.pre) > 3
    /\ last.kind = "skip"

\* C2 as the specification states it: not initial, accuracy not 0, locations differ; the
\* gate returns true whenever updates_skipped > 3 and the distance traveled is >= 0.
C2_AsStated ==
    (last.op = "gate" /\ MovedNonInitial(last.pre)
        /\ SkippedOf(last.pre) > 3 /\ TraveledOf(last.pre) >= 0)
    => last.kind = "proceed"

\* C2: not initial, accuracy not 0, locations differ; the gate returns true whenever
\* updates_skipped > 3 and the distance traveled is at least 1 m (its whole metres are
\* > 0), for every such distance including every one below 10 m.
C2_ForcedFromOneMetre ==
    (last.op = "gate" /\ MovedNonInitial(last.pre)
        /\ SkippedOf(last.pre) > 3 /\ TraveledOf(last.pre) >= 10)
    => last.kind = "proceed"

C2_Witness ==
    /\ last.op = "gate"
    /\ MovedNonInitial(last.pre)
    /\ SkippedOf(last.pre) > 3
    /\ TraveledOf(last.pre) >= 10
    /\ TraveledOf(last.pre) < 100
    /\ last.kind = "proceed"

\* C3: not initial, accuracy not 0, locations differ; when the distance traveled is below
\* 10 m and updates_skipped <= 3 the gate returns false and updates_skipped is its value
\* before the call plus 1.
C3_DebounceCounts ==
    (last.op = "gate" /\ MovedNonInitial(last.pre)
        /\ TraveledOf(last.pre) < 100 /\ SkippedOf(last.pre) <= 3)
    => (last.kind = "skip" /\ SkippedOf(attr) = SkippedOf(last.pre) + 1)

C3_Witness ==
    /\ last.op = "gate"
    /\ MovedNonInitial(last.pre)
    /\ TraveledOf(last.pre) = 95
    /\ SkippedOf(last.pre) = 3
    /\ last.kind = "skip"
    /\ SkippedOf(attr) = 4

(***************************************************************************)
(* Properties of the entity (checked under Spec)                           *)
(***************************************************************************)
\* the last operation was an update pass that ended as kind
PassEnded(kind) == last.op = "pass" /\ last.kind = kind
\* the length of a state value (0 for no value)
StateLen(v) == IF IsStr(v) THEN Len(v.s) ELSE 0
\* the store equals the one the pass started from, but for the last_updated stamp
Reverted == clear_attr(attr, "last_updated") = clear_attr(last.pre, "last_updated")
\* the store a is in the zone whose display name is "Home"
InHome(a) == in_zone(a) /\ get_attr(a, "devicetracker_zone_name") = Str("Home")

\* C4 as the specification states it: a pass skipped by the debounce rule leaves
\* updates_skipped one greater than the pass found it (so that the counter can pass 3 and
\* open the gate).
C4_AsStated ==
    (last.op = "pass" /\ last.rule = "debounce")
    => SkippedOf(attr) = SkippedOf(last.pre) + 1

\* C5: at the end of every pass in which the gate opened and the geocode request was made,
\* updates_skipped is 0, whether the pass committed or found no change.
C5_SkippedResetAfterGeocode ==
    (last.op = "pass" /\ last.reqs # <<>> /\ last.kind \in {"commit", "revert"})
    => SkippedOf(attr) = 0

C5_Witness ==
    /\ PassEnded("revert")
    /\ last.reqs # <<>>
    /\ SkippedOf(attr) = 0

\* C6 as the specification states it: in every state native_value, in the store and as
\* the host sees it, is at most 255 characters long.
C6_AsStated == StateLen(get_attr(attr, "native_value")) <= 255 /\ StateLen(host) <= 255

\* C7 as the specification states it: for every entity initial_update is true from
\* construction until its first commit and false after it.
C7_AsStated == InitialUpdateOf(attr) <=> ~hist.committed

\* C7: for an entity constructed without a snapshot initial_update is true from
\* construction until its first commit and false after it; for an entity constructed from
\* a snapshot it is false from construction on.
C7_InitialUntilCommitOrImport ==
    IF hist.fromSnapshot THEN ~InitialUpdateOf(attr)
    ELSE InitialUpdateOf(attr) <=> ~hist.committed

C7_Witness ==
    /\ hist.fromSnapshot
    /\ ~hist.committed
    /\ last.op = "pass"
    /\ ~InitialUpdateOf(attr)

\* C8 as the specification states it: a pass that follows a pass with the same tracked
\* entity (coordinates, accuracy, zone) and the same geocode response commits nothing: the store is reverted, no
\* event is fired and nothing is persisted.
C8_AsStated ==
    (last.op = "pass" /\ last.repeat)
    => /\ last.kind # "commit"
       /\ Reverted
       /\ ~last.event.fired
       /\ ~last.wrote
       /\ file = last.preFile

\* C9 as the specification states it: a committed pass in the zone "Home" sets
\* native_value to "Home" and is_driving to false.
C9_AsStated ==
    (PassEnded("commit") /\ InHome(attr))
    => /\ get_attr(attr, "native_value") = Str("Home")
       /\ get_attr(attr, "is_driving") = Bool(FALSE)

\* the display options name "zone" and not "formatted_place"
ShowsZone == InList("zone", DisplayOptions(attr)) /\ ~InList("formatted_place", DisplayOptions(attr))
\* the native value without the " (since HH:MM)" suffix show_time adds
NativeValueShown ==
    IF Truthy(get_attr(attr, "show_time"))
    THEN SliceTo(get_attr(attr, "native_value").s, -14)
    ELSE get_attr(attr, "native_value").s

\* C9: a committed pass in the zone "Home" sets is_driving to false whatever the place
\* category, type and direction are, and sets native_value to "Home", or to the state of
\* the tracked entity when the display options name "zone" and not "formatted_place",
\* followed by " (since HH:MM)" when show_time is on.
C9_HomeZoneState ==
    (PassEnded("commit") /\ InHome(attr))
    => /\ get_attr(attr, "is_driving") = Bool(FALSE)
       /\ NativeValueShown = (IF ShowsZone THEN get_attr(attr, "devicetracker_zone").s ELSE "Home")
       /\ Truthy(get_attr(attr, "show_time"))
            => get_attr(attr, "native_value").s = NativeValueShown \o " (since " \o ClockAt(hist.steps - 1) \o ")"

C9_Witness ==
    /\ PassEnded("commit")
    /\ InHome(attr)
    /\ get_attr(attr, "place_category") = Str("highway")
    /\ get_attr(attr, "direction_of_travel") = Str("towards home")
    /\ get_attr(attr, "native_value") = Str("Home")
    /\ get_attr(attr, "is_driving") = Bool(FALSE)

\* C10 as the specification states it: when a pass that is not the initial one and that
\* started outside every zone commits in the zone "Home", last_place_name is "Home".
C10_AsStated ==
    (PassEnded("commit") /\ InHome(attr)
        /\ ~in_zone(last.pre) /\ ~InitialUpdateOf(last.pre))
    => get_attr(attr, "last_place_name") = Str("Home")

(***************************************************************************)
(* The first passes of a new entity over geocode responses of every shape: *)
(* the response of the specification's street scenario, a complete one,    *)
(* and responses that lack one part.                                       *)
(***************************************************************************)
\* the longest run of passes explored
MaxPasses == 2

\* resp without key, and resp with key set to v
Without(resp, key) == Dict([k \in DOMAIN resp.d \ {key} |-> resp.d[k]])
With(resp, key, v) == Dict((key :> v) @@ resp.d)

\* {address: {road, house_number, city, state, country, postcode}, display_name}
ScenarioResponse ==
    Dict([k \in {"address", "display_name"} |->
            IF k = "display_name" THEN Str("12 Main St, Springfield, IL, USA")
            ELSE Dict([j \in {"road", "house_number", "city", "state", "country", "postcode"} |->
                         CASE j = "road" -> Str("Main St")
                           [] j = "house_number" -> Str("12")
                           [] j = "city" -> Str("Springfield")
                           [] j = "state" -> Str("IL")
                           [] j = "country" -> Str("USA")
                           [] OTHER -> Str("62704")])])

\* the house with a region code that holds no "-"
PlainCodeResponse ==
    With(HouseResponse, "address", With(DictGet(HouseResponse, "address"), "ISO3166-2-lvl4", Str("IL")))

ScenarioResponses ==
    {ScenarioResponse, With(ScenarioResponse, "namedetails", EmptyDict), HouseResponse,
     MotorwayResponse, Without(HouseResponse, "address"), Without(HouseResponse, "namedetails"),
     Without(HouseResponse, "category"), PlainCodeResponse}

ScenarioTrackers == {TrackerAt(1500, None, "not_home"), TrackerAt(3000, Num(50), "not_home")}

\* what the details request returns: nothing, details without and with a wikidata tag
PlainDetails == Dict([k \in {"extratags"} |-> Dict([j \in {"population"} |-> Str("116250")])])
LinkedDetails == Dict([k \in {"extratags"} |-> Dict([j \in {"wikidata"} |-> Str("Q28515")])])
ScenarioDetails == {EmptyDict, PlainDetails, LinkedDetails}
\* what the linked-data request returns
LinkedData == Dict([k \in {"id"} |-> Str("Q28515")])

ScenarioEnvironments(now) ==
    {[tr |-> tr, resp |-> resp, details |-> details, wiki |-> LinkedData, now |-> now] :
        tr \in ScenarioTrackers, resp \in ScenarioResponses, details \in ScenarioDetails}

ScenarioConfigs ==
    {ConfigOf("street,city,state", FALSE, FALSE, None, Loc(0, 0)),
     ConfigOf("street_number, street, city, state", FALSE, TRUE, Str("en"), Loc(0, 0)),
     ConfigOf("formatted_place", FALSE, FALSE, None, Loc(0, 0))}

InitScenario ==
    /\ config \in ScenarioConfigs
    /\ file = NoFile
    /\ \E made \in {Construct(config, NoFile)} : attr = made.a /\ host = made.host
    /\ alive = TRUE
    /\ last = NotAPass("construct")
    /\ hist = [fromSnapshot |-> FALSE, committed |-> FALSE, steps |-> 0, shown |-> None]
    /\ running = <<>>

\* tsc_update with the tracked entity and the geocoder of the scenario
ScenarioUpdate ==
    /\ hist.steps < MaxPasses
    /\ \E env \in ScenarioEnvironments(ClockAt(hist.steps)) : do_update(env)

NextScenario == ScenarioUpdate

SpecScenario == InitScenario /\ [][NextScenario]_vars

\* the prefix of s that ends just before its earliest delimiter (s when it holds none)
Delimiters == {",", "\\", "/", ";", ":"}
BeforeDelimiter(s) ==
    LET at == {i \in 1..Len(s) : SubSeq(s, i, i) \in Delimiters}
    IN  IF at = {} THEN s ELSE SubSeq(s, 1, (CHOOSE i \in at : \A j \in at : i <= j) - 1)
\* the namedetails.ref of the response the pass received (None without one)
RefSeen ==
    IF IsDict(last.seen.resp) /\ InDict("namedetails", last.seen.resp)
       /\ InDict("ref", DictGet(last.seen.resp, "namedetails"))
    THEN DictGet(DictGet(last.seen.resp, "namedetails"), "ref")
    ELSE None

\* C11 as the specification states it: after a pass that parsed a highway whose
\* namedetails.ref holds a delimiter, street_ref is the prefix of ref that ends just
\* before the earliest delimiter ("I-90;US-20" gives "I-90"); a ref without a delimiter is
\* stored unchanged.
C11_AsStated ==
    (PassEnded("commit") /\ get_attr(attr, "place_category") = Str("highway") /\ ~IsNone(RefSeen))
    => get_attr(attr, "street_ref") = Str(BeforeDelimiter(RefSeen.s))

\* C12 as the specification states it: with display options "street,city,state", in the
\* initial update, outside every zone, the response of the street scenario is committed
\* with native_value "12 Main St, Springfield, IL".
C12_AsStated ==
    (last.op = "pass" /\ config.options = "street,city,state" /\ InitialUpdateOf(last.pre)
        /\ last.seen.resp = ScenarioResponse)
    => (last.kind = "commit" /\ get_attr(attr, "native_value") = Str("12 Main St, Springfield, IL"))

\* C13 as the specification states it: a pass whose gate opened and whose geocode fetch
\* returned an empty result ends with the store it started from, apart from last_updated,
\* fires no event and persists nothing.
C13_AsStated ==
    PassEnded("nofetch")
    => (Reverted /\ ~last.event.fired /\ ~last.wrote /\ file = last.preFile)

(***************************************************************************)
(* get_dict_from_url.  net is what requests.get(url) does: it raises       *)
(* net.exc ("" when it returns), or returns a response that is truthy when *)
(* net.ok (status below 400) and whose text is net.text.  A text is        *)
(* [kind, value]: "empty" for "", "invalid" for text json.loads rejects,   *)
(* "json" for text json.loads turns into value.                            *)
(***************************************************************************)
Returned(value) == [value |-> value, raised |-> FALSE]
Raised == [value |-> None, raised |-> TRUE]

\* lines 1042-1055: json.loads(get_json_input), which raises JSONDecodeError on invalid text
json_loads(text) == IF text.kind = "invalid" THEN Raised ELSE Returned(text.value)

\* "error_message" in get_dict: a key of a dict, an element of a list, a part of a string;
\* any other value is not iterable and the test raises TypeError
HasIn(get_dict) == IsDict(get_dict) \/ IsList(get_dict) \/ IsStr(get_dict)
ErrorMessageIn(get_dict) ==
    IF IsDict(get_dict) THEN InDict("error_message", get_dict)
    ELSE IF IsList(get_dict) THEN InList(Str("error_message"), get_dict.l)
    ELSE Contains(get_dict.s, "error_message")

\* lines 1056-1066: a response with an error_message is dropped
CheckErrorMessage(get_dict) ==
    IF ~HasIn(get_dict) THEN Raised
    ELSE IF ErrorMessageIn(get_dict) THEN Returned(EmptyDict)
    ELSE Returned(get_dict)

\* lines 1044-1066 once json.loads has left loaded = [value, raised]: {} on a JSONDecodeError
AfterLoad(loaded) == IF loaded.raised THEN Returned(EmptyDict) ELSE CheckErrorMessage(loaded.value)

\* lines 1029-1043: get_dict, the text of a truthy response parsed when it is not empty
Loaded(net) ==
    IF net.ok /\ net.text.kind # "empty" THEN json_loads(net.text) ELSE Returned(EmptyDict)

\* get_dict_from_url: the value returned, or raised when an exception leaves it
get_dict_from_url(net) ==
    IF net.exc # "" THEN Returned(EmptyDict) ELSE AfterLoad(Loaded(net))

\* the exceptions of requests.get the code names, and any other
RequestExceptions == {"Timeout", "OSError", "NewConnectionError", "Exception"}
ErrorBody == Dict([k \in {"error_message"} |-> Str("Unable to geocode")])
\* what a server may send as JSON: objects, arrays, strings, a number, null, true
JsonValues ==
    {EmptyDict, HouseResponse, MotorwayResponse, ErrorBody,
     With(HouseResponse, "error_message", Str("Unable to geocode")),
     List(<<>>), List(<<Str("error_message")>>), Str("ok"), Str("no error_message"),
     Num(5), None, Bool(TRUE)}
Texts ==
    {[kind |-> "empty", value |-> None], [kind |-> "invalid", value |-> None]}
    \cup {[kind |-> "json", value |-> v] : v \in JsonValues}
NetworkOutcomes ==
    {[exc |-> e, ok |-> FALSE, text |-> [kind |-> "empty", value |-> None]] : e \in RequestExceptions}
    \cup {[exc |-> "", ok |-> ok, text |-> t] : ok \in BOOLEAN, t \in Texts}
RequestNames == {"OpenStreetMaps", "OpenStreetMaps Details", "Wikidata"}

InitFetch ==
    /\ config = GateConfig
    /\ file = NoFile
    /\ \E made \in {Construct(config, NoFile)} : attr = made.a /\ host = made.host
    /\ alive = TRUE
    /\ \E net \in NetworkOutcomes, name \in RequestNames :
          last = [op |-> "request", name |-> name, net |-> net, value |-> None, raised |-> FALSE]
    /\ hist = [fromSnapshot |-> FALSE, committed |-> FALSE, steps |-> 0, shown |-> None]
    /\ running = <<>>

\* one call of get_dict_from_url: last keeps what it returned, or that it raised
GetDictFromUrl ==
    /\ last.op = "request"
    /\ \E got \in {get_dict_from_url(last.net)} :
          last' = [last EXCEPT !.op = "response", !.value = got.value, !.raised = got.raised]
    /\ hist' = [hist EXCEPT !.steps = 1]
    /\ UNCHANGED <<config, attr, host, file, alive, running>>

NextFetch == GetDictFromUrl

SpecFetch == InitFetch /\ [][NextFetch]_vars

\* the request failed: an exception, text that is no JSON, or an object with error_message
FetchFailed(net) ==
    \/ net.exc # ""
    \/ net.text.kind = "invalid"
    \/ (net.text.kind = "json" /\ IsDict(net.text.value) /\ InDict("error_message", net.text.value))

\* C14 as the specification states it: get_dict_from_url never raises; it returns {} when
\* the request raised, the text is invalid JSON or the response holds error_message, and
\* the parsed JSON object of a successful response otherwise.
C14_AsStated ==
    last.op = "response"
    => /\ ~last.raised
       /\ FetchFailed(last.net) => last.value = EmptyDict
       /\ (~FetchFailed(last.net) /\ last.net.ok /\ last.net.text.kind = "json"
              /\ IsDict(last.net.text.value))
            => last.value = last.net.text.value

(***************************************************************************)
(* Passes that overlap.  tsc_update is a plain function subscribed with    *)
(* async_track_state_change_event and async_update hands do_update to      *)
(* async_add_executor_job, so both run do_update in a thread of the        *)
(* executor pool and the code takes no lock.  A pass is followed in two    *)
(* steps: it begins (line 1912 reads the clock, line 1913 copies the       *)
(* store) and it ends (the rest of do_update, run on the store as it then  *)
(* is).  running[t] is the pass begun in thread t: its copy of the store   *)
(* and what it will see of the world.                                      *)
(***************************************************************************)
\* the number of steps after which no further pass begins
MaxBegun == 3

OverlapTrackers == {TrackerAt(0, None, "home"), TrackerAt(3000, Num(50), "not_home")}
OverlapEnvironments(now) ==
    {[tr |-> tr, resp |-> resp, details |-> EmptyDict, wiki |-> EmptyDict, now |-> now] :
        tr \in OverlapTrackers, resp \in {HouseResponse, MotorwayResponse}}
OverlapConfigs ==
    {ConfigOf("zone_name, place", FALSE, FALSE, None, Loc(0, 0)),
     ConfigOf("formatted_place", FALSE, FALSE, None, Loc(0, 0))}

InitOverlap ==
    /\ config \in OverlapConfigs
    /\ file = NoFile
    /\ \E made \in {Construct(config, NoFile)} : attr = made.a /\ host = made.host
    /\ alive = TRUE
    /\ last = NotAPass("construct")
    /\ hist = [fromSnapshot |-> FALSE, committed |-> FALSE, steps |-> 0, shown |-> None]
    /\ running = <<>>

\* lines 1909-1913 in thread t: the pass has read the clock and copied the store
Begin(t, env) ==
    /\ t \notin DOMAIN running
    /\ hist.steps < MaxBegun
    /\ is_devicetracker_set(env.tr)
    /\ running' = (t :> [previous_attr |-> attr, env |-> env]) @@ running
    /\ last' = NotAPass("begin")
    /\ hist' = [hist EXCEPT !.steps = @ + 1]
    /\ UNCHANGED <<config, attr, host, file, alive>>

\* tsc_update: the state change starts a pass in an executor thread
TscBegins == \E env \in OverlapEnvironments(ClockAt(hist.steps)) : Begin("tsc", env)

\* async_update: the periodic scan starts a pass in an executor thread
ScanBegins == \E env \in OverlapEnvironments(ClockAt(hist.steps)) : Begin("scan", env)

\* lines 1915-2196: the pass of thread t runs to its end
PassEnds ==
    \E t \in DOMAIN running :
        /\ UpdateFrom(running[t].previous_attr, running[t].env)
        /\ running' = [u \in DOMAIN running \ {t} |-> running[u]]

NextOverlap == TscBegins \/ ScanBegins \/ PassEnds

SpecOverlap == InitOverlap /\ [][NextOverlap]_vars

\* C15 as the specification states it: no pass of an entity begins while another pass of
\* it has taken its snapshot and not yet finished.
C15_AsStated == Cardinality(DOMAIN running) <= 1

\* C16: a pass issues at most the requests geocode, extended details, linked data, in that
\* order: the details request only in a pass whose geocode request returned data, with
\* extended attributes enabled, that commits; the linked-data request only after a details
\* request of the pass that returned details holding a wikidata id.
C16_RequestsInOrder ==
    last.op = "pass"
    => /\ last.reqs \in {<<>>, <<"osm">>, <<"osm", "details">>, <<"osm", "details", "wikidata">>}
       /\ InList("details", last.reqs)
            => /\ last.seen.resp # EmptyDict
               /\ config.extended_attr
               /\ last.kind = "commit"
       /\ InList("wikidata", last.reqs)
            => /\ last.seen.details # EmptyDict
               /\ InDict("extratags", last.seen.details)
               /\ InDict("wikidata", DictGet(last.seen.details, "extratags"))

C16_Witness ==
    /\ PassEnded("commit")
    /\ last.reqs = <<"osm", "details", "wikidata">>
    /\ get_attr(attr, "wikidata_id") = Str("Q28515")
    /\ get_attr(attr, "wikidata_dict") = LinkedData

\* the store a holds no home latitude or no home longitude
HomeMissing(a) == is_attr_blank(a, "home_latitude") \/ is_attr_blank(a, "home_longitude")

\* C17: when the home latitude or longitude is missing (the current coordinates are those
\* of the tracked entity), the pass stops before any request: the store is the one the
\* pass started from, apart from last_updated, no event is fired, nothing is persisted and
\* the host-visible state stays.
C17_MissingCoordinatesAbort ==
    (last.op = "pass" /\ HomeMissing(last.pre))
    => /\ last.kind = "abort"
       /\ last.reqs = <<>>
       /\ Reverted
       /\ ~last.event.fired
       /\ file = last.preFile
       /\ host = last.preHost

C17_Witness ==
    /\ PassEnded("abort")
    /\ HomeMissing(last.pre)
    /\ ~is_attr_blank(last.pre, "initial_update")
    /\ is_attr_blank(attr, "latitude")
    /\ last.reqs = <<>>

\* C18 as the specification states it: whatever non-empty response the geocode request
\* returns, the pass raises no error and ends in a commit or a revert.
C18_AsStated ==
    (last.op = "pass" /\ last.reqs # <<>> /\ last.seen.resp # EmptyDict)
    => last.kind \in {"commit", "revert"}

\* C19: the change event is fired in every committed pass and in no pass that is reverted,
\* gated closed, aborted or whose geocode fetch returned no data.
C19_EventIffCommit ==
    last.op = "pass" => (last.event.fired <=> last.kind = "commit")

C19_Witness ==
    /\ PassEnded("commit")
    /\ last.event.fired
    /\ "to_state" \in DOMAIN last.event.data
    /\ last.event.data["to_state"] = get_attr(attr, "native_value")

PassEndedIn(kinds) == last.op = "pass" /\ last.kind \in kinds
\* str(now) of the pass that ran last
LastStamp == StrOfNow(ClockAt(hist.steps - 1))

\* C21: after a pass that is gated closed, aborted for missing coordinates, or found no
\* material change, every attribute other than last_updated has the value it had when the
\* pass started; every pass that ends committed or reverted leaves last_updated = str(now).
C21_RevertedPassFrame ==
    /\ PassEndedIn({"gated", "abort", "revert"}) => Reverted
    /\ PassEndedIn({"commit", "gated", "abort", "nozone", "revert"})
          => get_attr(attr, "last_updated") = LastStamp

\* a pass found no material change: its store is the one before it with a new stamp
C21_Witness ==
    /\ PassEnded("revert")
    /\ ~is_attr_blank(last.pre, "last_updated")
    /\ get_attr(last.pre, "last_updated") # get_attr(attr, "last_updated")
    /\ Reverted


\* the pass that ran last built a display value and came to the commit decision
ReachedDecision == last.op = "pass" /\ last.built.kind = ""
\* the store the decision was taken on
Decided == last.built.a
\* previous differs from new: lower-cased and trimmed, also with its spaces removed, and
\* previous is not the raw zone id
MateriallyDifferent(previous, new, zone) ==
    /\ Strip(Lower(previous)) # Strip(Lower(new))
    /\ Strip(Lower(Replace(previous, " ", ""))) # Strip(Lower(new))
    /\ Strip(Lower(previous)) # Strip(Lower(zone))
\* initial update, or a blank previous or new value, or a material difference
CommitDue(a) ==
    \/ get_attr(a, "initial_update") = Bool(TRUE)
    \/ is_attr_blank(a, "previous_state")
    \/ is_attr_blank(a, "native_value")
    \/ MateriallyDifferent(get_attr(a, "previous_state").s, get_attr(a, "native_value").s,
                           get_attr(a, "devicetracker_zone").s)

\* C22: a pass that reached the display-value stage commits if and only if the
\* initial-update flag is set, or the previous state is blank, or the new value is blank,
\* or the new value is materially different from the previous state; in every other case
\* it reverts.
C22_CommitIffDue ==
    ReachedDecision =>
        /\ last.kind = "commit" <=> CommitDue(Decided)
        /\ last.kind # "commit" => last.kind = "revert"

\* a pass after the initial one commits because its value is materially different
C22_Witness ==
    /\ ReachedDecision
    /\ get_attr(Decided, "initial_update") = Bool(FALSE)
    /\ ~is_attr_blank(Decided, "previous_state")
    /\ ~is_attr_blank(Decided, "native_value")
    /\ last.kind = "commit"


(***************************************************************************)
(* Persistence round trip                                                  *)
(***************************************************************************)
\* the attributes of the written store the fresh entity has to reproduce: neither
\* datetime-typed, nor configuration-derived, nor explicitly not imported
Reproducible(data) ==
    {k \in DOMAIN data : ~IsDatetime(data[k])} \ (CONFIG_ATTRIBUTES_LIST \cup JSON_IGNORE_ATTRIBUTE_LIST)
\* the entity has just been constructed from an existing snapshot
FromSnapshot == last.op = "construct" /\ hist.fromSnapshot /\ file.exists

SameValueRebuilt ==
    /\ ReachedDecision
    /\ get_attr(Decided, "initial_update") = Bool(FALSE)
    /\ IsStr(last.shown)
    /\ get_attr(Decided, "native_value") = last.shown

\* C24 as the specification states it: a full pass (gate open, not initial) that builds the
\* same display value as the last committed pass reverts and fires no event, whatever the
\* length of the value and whether show_time is on or off.
C24_AsStated == SameValueRebuilt => (last.kind = "revert" /\ ~last.event.fired)


(***************************************************************************)
(* Frame of the update gate (checked under SpecGate)                       *)
(***************************************************************************)
\* C25: determine_if_update_needed modifies the skip counter only on the debounce branch;
\* on every other branch (accuracy 0, initial update, identical coordinates, forced
\* refresh, normal update) updates_skipped and all other attributes are left unchanged,
\* and the debounce branch changes nothing but the counter.
C25_GateFrame ==
    last.op = "gate" =>
        /\ last.rule \in {"accuracy", "initial", "identical", "forced", "normal", "debounce"}
        /\ last.rule # "debounce" => attr = last.pre
        /\ clear_attr(attr, "updates_skipped") = clear_attr(last.pre, "updates_skipped")
        /\ "updates_skipped" \in DOMAIN attr

\* the forced refresh opens the gate and leaves the counter above the limit as it was
C25_Witness ==
    /\ last.op = "gate"
    /\ last.rule = "forced"
    /\ SkippedOf(last.pre) > SkipLimit
    /\ attr = last.pre


(***************************************************************************)
(* The blank test on its own.  The store holds up to three attributes with *)
(* values of every kind the entity stores; is_attr_blank is asked about a  *)
(* key, or cleanup_attributes is run.                                      *)
(***************************************************************************)
BlankKeys == {"native_value", "is_driving", "updates_skipped"}
StoredValues ==
    {None, Str(""), Str("x"), Num(0), Num(1), Bool(FALSE), Bool(TRUE), List(<<>>),
     List(<<"zone">>), EmptyDict, Dict([k \in {"name"} |-> Str("x")])}

InitBlank ==
    /\ config = GateConfig
    /\ attr \in UNION {[keys -> StoredValues] : keys \in SUBSET BlankKeys}
    /\ host = None
    /\ file = NoFile
    /\ alive = TRUE
    /\ last = NotAPass("input")
    /\ hist = [fromSnapshot |-> FALSE, committed |-> FALSE, steps |-> 0, shown |-> None]
    /\ running = <<>>

\* is_attr_blank(key): last keeps the store, the key (rule) and the answer (kind)
IsAttrBlank ==
    /\ last.op = "input"
    /\ \E key \in BlankKeys :
          last' = [NotAPass("blank") EXCEPT !.pre = attr, !.rule = key,
                       !.kind = IF is_attr_blank(attr, key) THEN "blank" ELSE "set"]
    /\ hist' = [hist EXCEPT !.steps = 1]
    /\ UNCHANGED <<config, attr, host, file, alive, running>>

\* cleanup_attributes(): last keeps the store it was run on
CleanupAttributes ==
    /\ last.op = "input"
    /\ attr' = cleanup_attributes(attr)
    /\ last' = [NotAPass("cleanup") EXCEPT !.pre = attr]
    /\ hist' = [hist EXCEPT !.steps = 1]
    /\ UNCHANGED <<config, host, file, alive, running>>

NextBlank == IsAttrBlank \/ CleanupAttributes

SpecBlank == InitBlank /\ [][NextBlank]_vars

\* the key is absent from the store a, or holds None, "", or an empty container
Empty(a, key) ==
    \/ key \notin DOMAIN a
    \/ a[key] = None
    \/ a[key] = Str("")
    \/ IsList(a[key]) /\ Len(a[key].l) = 0
    \/ IsDict(a[key]) /\ DOMAIN a[key].d = {}

\* C26 as the specification states it: is_attr_blank(key) is true if and only if the key is
\* absent or its value is None, the empty string, an empty container, or another falsy
\* value that is not integer zero.
C26_AsStated ==
    last.op = "blank" =>
        (last.kind = "blank" <=>
            \/ Empty(last.pre, last.rule)
            \/ last.pre[last.rule] \in Falsy /\ last.pre[last.rule] # Num(0))

\* C26: is_attr_blank(key) is true if and only if the key is absent or its value is None,
\* the empty string or an empty container; a stored 0 or False is not blank, and
\* cleanup_attributes removes exactly the blank attributes.
C26_BlankIffEmpty ==
    /\ last.op = "blank" => (last.kind = "blank" <=> Empty(last.pre, last.rule))
    /\ last.op = "cleanup" =>
          attr = [k \in {j \in DOMAIN last.pre : ~Empty(last.pre, j)} |-> last.pre[k]]

\* a stored False and a stored 0 are kept by cleanup_attributes, next to a blank attribute
\* that is removed
C26_Witness ==
    /\ last.op = "cleanup"
    /\ RawGet(last.pre, "is_driving") = Bool(FALSE)
    /\ RawGet(last.pre, "updates_skipped") = Num(0)
    /\ RawGet(last.pre, "native_value") = Str("")
    /\ DOMAIN attr = {"is_driving", "updates_skipped"}


(***************************************************************************)
(* Driving status, direction of travel and last place name                 *)
(***************************************************************************)
\* the zone of the store a is a recognized one: set, and none of away, not_home, notset or
\* a state containing "stationary"
InRecognizedZone(a) ==
    /\ "devicetracker_zone" \in DOMAIN a
    /\ a["devicetracker_zone"] # Str("")
    /\ Lower(a["devicetracker_zone"].s) \notin {"away", "not_home", "notset"}
    /\ ~Contains(Lower(a["devicetracker_zone"].s), "stationary")
\* the value the store a holds for key is the string text
Holds(a, key, text) == key \in DOMAIN a /\ a[key] = Str(text)

\* C27: get_driving_status sets is_driving to true if and only if the entity is not in a
\* recognized zone and direction_of_travel is not "stationary" and (place_category is
\* "highway" or place_type is "motorway"); otherwise it sets is_driving to false.
C27_DrivingStatus ==
    ReachedDecision =>
        /\ "is_driving" \in DOMAIN Decided
        /\ Decided["is_driving"] =
              Bool(/\ ~InRecognizedZone(Decided)
                   /\ ~Holds(Decided, "direction_of_travel", "stationary")
                   /\ (Holds(Decided, "place_category", "highway")
                       \/ Holds(Decided, "place_type", "motorway")))

\* a pass found the entity moving on a motorway outside every zone
C27_Witness ==
    /\ ReachedDecision
    /\ Decided["is_driving"] = Bool(TRUE)
    /\ Holds(Decided, "place_type", "motorway")
    /\ Holds(Decided, "direction_of_travel", "away from home")


(***************************************************************************)
(* The coordinate/distance resolver on its own.  The store it is given is  *)
(* the one a pass hands it: the store an earlier pass left (its            *)
(* coordinates, distance from home, place name and last place name, or     *)
(* none of them for a new entity) taken through the steps of do_update up  *)
(* to the resolver, for a tracker north or south of home.  Home is on the  *)
(* equator at longitude 0 or 90 degrees, or has no coordinates.            *)
(***************************************************************************)
TravelHomes == {Loc(0, 0), Loc(0, QuarterTurn)}
\* the latitude the earlier pass stored and the one the tracker reports, in decimetres
TravelOld == {-3000, 0, 1500, 6000}
TravelNew == {0, 1500, 3000}
TravelNames == {None, Str("Cafe"), Str("Office")}
TravelConfig(home) == ConfigOf("zone_name, place", FALSE, FALSE, None, home)
HomeLongitude(home) == IF IsNone(home) THEN 0 ELSE home.loc[2]

\* the tracked entity at latitude lat on the meridian of home
TravelTracker(home, lat, state) ==
    [lat |-> Num(lat), lon |-> Num(HomeLongitude(home)), acc |-> Num(50), state |-> state,
     zone_name |-> None]

\* set_attr(key, v) unless v is None
SetIfGiven(a, key, v) == IF IsNone(v) THEN a ELSE set_attr(a, key, v)

\* the store of an entity whose last pass committed at latitude old on the meridian of home
Located(a, home, old) ==
    set_attr(SetIfFloat(SetIfFloat(a, "latitude", Num(old)), "longitude", Num(HomeLongitude(home))),
             "distance_from_home_m",
             Num(distance(old, HomeLongitude(home), home.loc[1], home.loc[2])))

\* the store of a new entity with its home zone
NewEntity(home) == InitialAttributes(TravelConfig(home))

\* the store after a committed pass at latitude old that left place_name and last_place_name
AfterCommitAt(home, old, place_name, last_place_name) ==
    SetIfGiven(SetIfGiven(Located(set_attr(NewEntity(home), "initial_update", Bool(FALSE)), home, old),
                          "place_name", place_name),
               "last_place_name", last_place_name)

\* the stores before the pass: a new entity, or one that has committed a pass before
TravelStores ==
    {NewEntity(home) : home \in TravelHomes \cup {None}}
    \cup {AfterCommitAt(home, old, place_name, last_place_name) :
            home \in TravelHomes, old \in TravelOld,
            place_name \in TravelNames \ {Str("Office")}, last_place_name \in TravelNames}

InitTravel ==
    /\ \E home \in TravelHomes \cup {None} :
          /\ config = TravelConfig(home)
          /\ \E before \in {a \in TravelStores : get_attr(a, "home_longitude") =
                                   get_attr(NewEntity(home), "home_longitude")},
                lat \in TravelNew, state \in {"home", "not_home"} :
                attr = ReadTracker(SavePrevious(before), TravelTracker(home, lat, state))
    /\ host = None
    /\ file = NoFile
    /\ alive = TRUE
    /\ last = NotAPass("input")
    /\ hist = [fromSnapshot |-> FALSE, committed |-> FALSE, steps |-> 0, shown |-> None]
    /\ running = <<>>

\* update_coordinates_and_distance applied to the store: last keeps the store it was given
\* and whether it returned True ("proceed"), False ("abort") or raised ("raised")
UpdateCoordinatesAndDistance ==
    /\ last.op = "input"
    /\ \E coords \in {update_coordinates_and_distance(attr)} :
          /\ attr' = coords.a
          /\ last' = [NotAPass("coords") EXCEPT !.pre = attr,
                          !.kind = IF coords.raised THEN "raised"
                                   ELSE IF coords.proceed THEN "proceed" ELSE "abort"]
    /\ hist' = [hist EXCEPT !.steps = 1]
    /\ UNCHANGED <<config, host, file, alive, running>>

NextTravel == UpdateCoordinatesAndDistance

SpecTravel == InitTravel /\ [][NextTravel]_vars

\* the store a holds current and home coordinates
HasCoordinates(a) ==
    {"latitude", "longitude", "home_latitude", "home_longitude"} \subseteq DOMAIN a
\* the store a holds the coordinates of the pass before
HasPrior(a) == {"latitude_old", "longitude_old"} \subseteq DOMAIN a
\* the distance on the ground between the old and the new coordinates of a, in decimetres
Displacement(a) ==
    distance(a["latitude_old"].c, a["longitude_old"].c, a["latitude"].c, a["longitude"].c)
\* the distance from the coordinates of a to home, in decimetres
FromHome(a) ==
    distance(a["latitude"].c, a["longitude"].c, a["home_latitude"].c, a["home_longitude"].c)
\* the direction of travel the store a calls for, given the distance from home before
DirectionDue(a, prior) ==
    IF ~HasPrior(a) THEN "stationary"
    ELSE IF Displacement(a) <= StationaryRadius THEN "stationary"
    ELSE IF FromHome(a) < prior THEN "towards home"
    ELSE IF FromHome(a) > prior THEN "away from home"
    ELSE "stationary"

\* C28 as the specification states it: whenever current and home coordinates are present,
\* update_coordinates_and_distance completes and sets direction_of_travel to "stationary"
\* when there are no prior coordinates or the displacement between old and new coordinates
\* is <= 0.2 km, otherwise to "towards home" when the new distance from home is below the
\* prior one, "away from home" when above, "stationary" when equal.
C28_AsStated ==
    (last.op = "coords" /\ HasCoordinates(last.pre)) =>
        /\ last.kind = "proceed"
        /\ Holds(attr, "direction_of_travel",
                 DirectionDue(last.pre, IF HasPrior(last.pre)
                                        THEN last.pre["distance_from_home_m"].n ELSE 0))


\* C29: update_coordinates_and_distance sets last_place_name to the known place name when
\* the entity is not in a recognized zone and a place name is known, to the zone display
\* name when it is in a zone, and leaves last_place_name unchanged otherwise.
C29_LastPlaceName ==
    last.op = "coords" =>
        RawGet(attr, "last_place_name") =
            IF InRecognizedZone(last.pre) THEN last.pre["devicetracker_zone_name"]
            ELSE IF "place_name" \in DOMAIN last.pre THEN last.pre["place_name"]
            ELSE RawGet(last.pre, "last_place_name")

\* outside every zone the place of the pass before replaces an older last place name
C29_Witness ==
    /\ last.op = "coords"
    /\ ~InRecognizedZone(last.pre)
    /\ Holds(last.pre, "place_name", "Cafe")
    /\ Holds(last.pre, "last_place_name", "Office")
    /\ Holds(attr, "last_place_name", "Cafe")


(***************************************************************************)
(* last_place_name after parsing (checked under Spec)                      *)
(***************************************************************************)
\* last_place_name as the resolver of the pass that ran last set it: the zone display name
\* inside a zone, else the place name the pass started with, else the value before the pass
ResolverSet ==
    IF InRecognizedZone(Decided) THEN RawGet(Decided, "devicetracker_zone_name")
    ELSE IF "place_name" \in DOMAIN last.pre THEN last.pre["place_name"]
    ELSE RawGet(last.pre, "last_place_name")

\* C30: after parsing in a full pass, last_place_name is restored to its pre-pass value
\* when the pass is the initial update or when the freshly resolved place name or the zone
\* display name equals the current last_place_name; in every other case the value set by
\* the resolver in this pass is kept.
C30_LastPlaceNameRetained ==
    ReachedDecision =>
        RawGet(Decided, "last_place_name") =
            IF \/ Decided["initial_update"] = Bool(TRUE)
               \/ ResolverSet = RawGet(Decided, "place_name")
               \/ ResolverSet = RawGet(Decided, "devicetracker_zone_name")
            THEN RawGet(last.pre, "last_place_name")
            ELSE ResolverSet

\* a pass after the initial one keeps the name of the place the entity has just left
C30_Witness ==
    /\ ReachedDecision
    /\ Decided["initial_update"] = Bool(FALSE)
    /\ "last_place_name" \in DOMAIN Decided
    /\ Decided["last_place_name"] = RawGet(last.pre, "place_name")
    /\ Decided["last_place_name"] # RawGet(last.pre, "last_place_name")

(***************************************************************************)
(* The parser and the two builders of the display value on their own: a    *)
(* pass of tsc_update that has received its geocode response, followed     *)
(* step by step through parse_osm_dict, lines 2029-2072 of do_update, and  *)
(* the builder that lines 2074-2109 choose.  running holds the locals of   *)
(* the pass, last.pre the store the last step began with.                  *)
(***************************************************************************)
\* the address of HouseResponse with a city district and a suburb added
DistrictAddress(city_district, suburb) ==
    SetIfGiven(SetIfGiven(DictGet(HouseResponse, "address").d, "city_district", city_district),
               "suburb", suburb)

\* HouseResponse in a city district, in a suburb, in both, or in neither
DistrictResponses ==
    {With(HouseResponse, "address", Dict(DistrictAddress(city_district, suburb))) :
        city_district \in {None, Str("Mitte")}, suburb \in {None, Str("Moabit")}}

\* HouseResponse for a town hall of the given name
TownHallResponse(name) ==
    With(With(HouseResponse, "type", Str("townhall")),
         "namedetails", Dict([j \in {"name"} |-> Str(name)]))

\* the town hall is named like its city, or on its own
ParseResponses ==
    DistrictResponses
    \cup {MotorwayResponse, TownHallResponse("Springfield"), TownHallResponse("Town Hall")}

\* the tracked entity 300 m north of home: in no zone, or in the zone "work" named Office
ParseTrackers ==
    {TrackerAt(3000, Num(50), "not_home"),
     [TrackerAt(3000, Num(50), "work") EXCEPT !.zone_name = Str("Office")]}

ParseOptions ==
    {"street, city", "zone_name, place, country", "driving, state, street_number, street",
     "formatted_place", "driving, formatted_place", "do_not_reorder, street, city",
     "state, do_not_reorder, city"}

ParseConfigs == {ConfigOf(options, FALSE, FALSE, None, Loc(0, 0)) : options \in ParseOptions}

\* the store before the pass: a new entity, or one whose last committed pass was at home
ParseStores(cfg) ==
    {Construct(cfg, NoFile).a,
     Located(set_attr(InitialAttributes(cfg), "initial_update", Bool(FALSE)), Loc(0, 0), 0)}

\* lines 1909-2026 of a pass over the store before with the tracked entity and the
\* response of env
Fetched(before, env) ==
    Fetch(Gate(update_coordinates_and_distance(
                   ReadTracker(SavePrevious(cleanup_attributes(before)), env.tr))), env)

InitParse ==
    /\ config \in ParseConfigs
    /\ \E before \in ParseStores(config), tr \in ParseTrackers, resp \in ParseResponses :
       \E env \in {[tr |-> tr, resp |-> resp, details |-> EmptyDict, wiki |-> EmptyDict,
                    now |-> ClockAt(0)]} :
          /\ attr = Fetched(before, env).a
          /\ Fetched(before, env).kind = ""
          /\ running = ("tsc" :> [previous_attr |-> before, env |-> env,
                                  prev_last_place_name |-> get_attr(before, "last_place_name")])
    /\ host = None
    /\ file = NoFile
    /\ alive = TRUE
    /\ last = NotAPass("fetched")
    /\ hist = [fromSnapshot |-> FALSE, committed |-> FALSE, steps |-> 0, shown |-> None]

\* the step named op has taken the store from attr to r.a
Stepped(op, r) ==
    /\ attr' = r.a
    /\ last' = [NotAPass(op) EXCEPT !.pre = attr, !.kind = IF r.raised THEN "raised" ELSE ""]
    /\ hist' = [hist EXCEPT !.steps = @ + 1]
    /\ UNCHANGED <<config, host, file, alive, running>>

\* line 2028
ParseOsmDict ==
    /\ last.op = "fetched"
    /\ Stepped("parsed", parse_osm_dict(attr))

\* lines 2029-2072
PrepareState ==
    /\ last.op = "parsed" /\ last.kind = ""
    /\ Stepped("prepared",
               Go(get_driving_status(SetDisplayOptions(
                      RetainLastPlaceName(attr, running["tsc"].prev_last_place_name)))))

\* lines 2074-2078
BuildFormattedPlace ==
    /\ last.op = "prepared"
    /\ InList("formatted_place", get_attr(attr, "display_options").l)
    /\ Stepped("formatted", build_formatted_place(attr))

\* lines 2079-2080
BuildStateFromDisplayOptions ==
    /\ last.op = "prepared"
    /\ ~InList("formatted_place", get_attr(attr, "display_options").l)
    /\ ~in_zone(attr)
    /\ Stepped("displayed", build_state_from_display_options(attr))

NextParse == ParseOsmDict \/ PrepareState \/ BuildFormattedPlace \/ BuildStateFromDisplayOptions

SpecParse == InitParse /\ [][NextParse]_vars

\* the address of the geocode response in the store
ParsedAddress == Address(attr)

\* C31 as the specification states it: parse_osm_dict sets postal_town to
\* address.city_district when that key is present, and to address.suburb only when
\* city_district is absent.
C31_AsStated ==
    (last.op = "parsed" /\ last.kind = "")
    => /\ InDict("city_district", ParsedAddress)
          => get_attr(attr, "postal_town") = DictGet(ParsedAddress, "city_district")
       /\ (~InDict("city_district", ParsedAddress) /\ InDict("suburb", ParsedAddress))
          => get_attr(attr, "postal_town") = DictGet(ParsedAddress, "suburb")

\* the display options of the store before the builder ran
Listed == get_attr(last.pre, "display_options").l
\* the lists that hold the items of the list items in any order
Reorderings(items) == {[i \in DOMAIN items |-> items[f[i]]] : f \in Permutations(DOMAIN items)}
\* the builder has run on a list of display options without do_not_reorder
DisplayedInFixedOrder == last.op = "displayed" /\ ~InList("do_not_reorder", Listed)
\* [a[key]] if the token is among tokens and a[key] is not blank, else []
Element(a, tokens, token, key) ==
    IF token \in tokens /\ ~Empty(a, key) THEN <<a[key].s>> ELSE <<>>
\* the zone name, else the zone id, unless do_not_show_not_home is among tokens
ZoneElement(a, tokens) ==
    IF "do_not_show_not_home" \in tokens THEN <<>>
    ELSE IF Element(a, tokens, "zone_name", "devicetracker_zone_name") # <<>>
    THEN Element(a, tokens, "zone_name", "devicetracker_zone_name")
    ELSE Element(a, tokens, "zone", "devicetracker_zone")
\* the place group: name unless it is the street, category unless "place", type unless
\* "yes", neighbourhood, street number and street
PlaceGroup(a) ==
    (IF ~Empty(a, "place_name") /\ RawGet(a, "place_name") # RawGet(a, "street")
     THEN <<a["place_name"].s>> ELSE <<>>)
    \o (IF ~Empty(a, "place_category") /\ Lower(a["place_category"].s) # "place"
        THEN <<a["place_category"].s>> ELSE <<>>)
    \o (IF ~Empty(a, "place_type") /\ Lower(a["place_type"].s) # "yes"
        THEN <<a["place_type"].s>> ELSE <<>>)
    \o Element(a, {"place"}, "place", "place_neighbourhood")
    \o Element(a, {"place"}, "place", "street_number")
    \o Element(a, {"place"}, "place", "street")
\* the elements due for the set tokens of option tokens, in the fixed order
ElementsDue(a, tokens) ==
    (IF "driving" \in tokens /\ RawGet(a, "is_driving") = Bool(TRUE) THEN <<"Driving">> ELSE <<>>)
    \o ZoneElement(a, tokens)
    \o Element(a, tokens, "place_name", "place_name")
    \o (IF "place" \in tokens THEN PlaceGroup(a)
        ELSE Element(a, tokens, "street_number", "street_number")
             \o Element(a, tokens, "street", "street"))
    \o Element(a, tokens, "city", "city")
    \o Element(a, tokens, "county", "county")
    \o Element(a, tokens \cap {"state", "region"}, IF "state" \in tokens THEN "state" ELSE "region",
               "region")
    \o Element(a, tokens, "postal_code", "postal_code")
    \o Element(a, tokens, "country", "country")
    \o Element(a, tokens, "formatted_address", "formatted_address")
\* the native value due: the elements joined with ", ", and the value as it was without any
ValueDue(a, tokens) ==
    IF ElementsDue(a, tokens) = <<>> THEN RawGet(a, "native_value")
    ELSE Str(Join(ElementsDue(a, tokens), ", "))

\* C32: without do_not_reorder the builder's native_value is the same for every ordering
\* of the configured option tokens: the elements whose token is configured and whose field
\* is not blank, in the fixed order driving, zone name or id, place_name, place group or
\* street_number and street, city, county, region, postal_code, country,
\* formatted_address, joined with ", ".
C32_OrderIndependent ==
    DisplayedInFixedOrder
    => /\ last.kind = ""
       /\ \A options \in Reorderings(Listed) :
             BuildFromOptions(last.pre, options).a["native_value"]
                = ValueDue(last.pre, {Listed[i] : i \in DOMAIN Listed})
       /\ RawGet(attr, "native_value") = ValueDue(last.pre, {Listed[i] : i \in DOMAIN Listed})

\* the builder has run on the options driving, state, street_number, street for a house:
\* the state comes after the street although it is listed before it
C32_Witness ==
    /\ DisplayedInFixedOrder
    /\ Listed = <<"driving", "state", "street_number", "street">>
    /\ RawGet(attr, "native_value") = Str("12, Main St, Illinois")

RECURSIVE TokensAsListed(_)
\* the option tokens in the order listed, without do_not_reorder, "state" as region and
\* "place_neighborhood" as place_neighbourhood
TokensAsListed(options) ==
    IF options = <<>> THEN <<>>
    ELSE (CASE Head(options) = "do_not_reorder" -> <<>>
            [] Head(options) = "state" -> <<"region">>
            [] Head(options) = "place_neighborhood" -> <<"place_neighbourhood">>
            [] OTHER -> <<Head(options)>>)
         \o TokensAsListed(Tail(options))

\* C33 as the specification states it: with do_not_reorder among the display options the
\* builder completes without error and the value consists of exactly the option tokens
\* supplied, in the order supplied, with "state" replaced by region and
\* "place_neighborhood" by place_neighbourhood, joined with ", ".
C33_AsStated ==
    (last.op = "displayed" /\ InList("do_not_reorder", Listed))
    => /\ last.kind = ""
       /\ RawGet(attr, "native_value") = Str(Join(TokensAsListed(Listed), ", "))

\* build_formatted_place has run and left formatted_place
Formatted == last.op = "formatted" /\ last.kind = ""
\* the place name of the store a duplicates none of the attributes of the duplicate list
OwnPlaceName(a) ==
    /\ ~Empty(a, "place_name")
    /\ \A key \in PLACE_NAME_DUPLICATE_LIST : RawGet(a, key) # a["place_name"]
\* the elements of formatted_place outside a zone: Driving, the label, the street, the
\* neighbourhood of a house, the city or county and the state abbreviation
ElementsOfPlace(a) ==
    (IF RawGet(a, "is_driving") = Bool(TRUE) /\ InList("driving", a["display_options"].l)
     THEN <<"Driving">> ELSE <<>>)
    \o FormattedLabel(a) \o FormattedStreet(a) \o FormattedNeighbourhood(a) \o FormattedCity(a)

C35_InitialStaysCleared ==
    (last.op = "pass" /\ ~InitialUpdateOf(last.pre)) => ~InitialUpdateOf(attr)

\* a pass that began with initial_update false restored its snapshot
C35_Witness ==
    /\ last.op = "pass"
    /\ last.kind = "revert"
    /\ RawGet(last.pre, "initial_update") = Bool(FALSE)
    /\ RawGet(attr, "initial_update") = Bool(FALSE)

\* C36: the host-visible state changes only inside a committed pass, the pass in which the
\* change event is fired: a pass that is gated closed, aborts, reverts, raises or receives
\* no geocode data leaves it as it was, and removing the entity does not touch it.
C36_HostChangesOnCommit ==
    /\ (last.op = "pass" /\ host # last.preHost) => (last.kind = "commit" /\ last.event.fired)
    /\ (last.op = "pass" /\ last.kind # "commit") => host = last.preHost
    /\ (last.op = "pass" /\ last.kind = "commit") => host = RawGet(attr, "native_value")

\* a committed pass replaced the value the host showed by another and fired the event
C36_Witness ==
    /\ last.op = "pass"
    /\ last.kind = "commit"
    /\ last.event.fired
    /\ last.preHost # None
    /\ host # last.preHost
    /\ host = RawGet(attr, "native_value")

\* no pass is in progress
Quiescent == DOMAIN running = {}

\* C37 as the specification states it: when a coordinate-change pass and a periodic pass
\* overlap, the revert of one never discards what the other committed: once both have
\* finished, the store holds the cleared initial-update flag and the native value of the
\* pass that committed and fired the event.
C37_AsStated ==
    (Quiescent /\ hist.committed)
    => /\ RawGet(attr, "initial_update") = Bool(FALSE)
       /\ RawGet(attr, "native_value") = host

(***************************************************************************)
(* A walk: the tracked entity moves north 3 m between one pass and the     *)
(* next, starting at home but outside the home zone.                       *)
(***************************************************************************)
\* the number of passes of the walk
MaxWalk == 5
\* the distance walked between two passes, in decimetres
WalkStride == 30

\* the tracked entity at pass n: its fix has an accuracy of 50 m, or of 0 once it is 10 m
\* from home
WalkTrackers(n) ==
    {TrackerAt(WalkStride * n, acc, "not_home") :
        acc \in {Num(50)} \cup (IF WalkStride * n >= DebounceMetres * 10 THEN {Num(0)} ELSE {})}

WalkEnvironments(n) ==
    {[tr |-> tr, resp |-> resp, details |-> EmptyDict, wiki |-> EmptyDict, now |-> ClockAt(n)] :
        tr \in WalkTrackers(n), resp \in {HouseResponse, MotorwayResponse, EmptyDict}}

WalkConfigs ==
    {ConfigOf("zone_name, place", FALSE, FALSE, None, Loc(0, 0)),
     ConfigOf("formatted_place", TRUE, FALSE, None, Loc(0, 0))}

InitWalk ==
    /\ config \in WalkConfigs
    /\ file = NoFile
    /\ \E made \in {Construct(config, NoFile)} : attr = made.a /\ host = made.host
    /\ alive = TRUE
    /\ last = NotAPass("construct")
    /\ hist = [fromSnapshot |-> FALSE, committed |-> FALSE, steps |-> 0, shown |-> None]
    /\ running = <<>>

\* tsc_update with the tracked entity where the walk has taken it
WalkUpdate ==
    /\ hist.steps < MaxWalk
    /\ \E env \in WalkEnvironments(hist.steps) : do_update(env)

NextWalk == WalkUpdate

SpecWalk == InitWalk /\ [][NextWalk]_vars

\* the store a holds coordinates
Retains(a) == {"latitude", "longitude"} \subseteq DOMAIN a
\* the distance in decimetres from the coordinates the store held when the pass began to
\* those the tracked entity reported
FromRetained ==
    distance(last.seen.tr.lat.n, last.seen.tr.lon.n, last.pre["latitude"].c, last.pre["longitude"].c)
\* the pass began with coordinates in the store and the tracked entity at least 10 m away
MovedFromRetained == last.op = "pass" /\ Retains(last.pre) /\ FromRetained >= DebounceMetres * 10
\* the gate let the pass through
GateOpened == last.rule \in {"initial", "forced", "normal"}

\* C38 as the specification states it: a debounced pass leaves the stored coordinates as
\* they were, and every pass whose coordinates lie 10 m or more from the coordinates the
\* store retains opens the gate.
C38_AsStated ==
    /\ (last.op = "pass" /\ last.rule = "debounce")
       => (Retains(attr) /\ attr["latitude"] = last.pre["latitude"]
                         /\ attr["longitude"] = last.pre["longitude"])
    /\ MovedFromRetained => GateOpened

\* C38: a debounced pass leaves the stored coordinates as they were, and a pass whose fix
\* has no accuracy of 0 and whose coordinates lie 10 m or more from the coordinates the
\* store retains opens the gate: moves of less than 10 m each that add up to 10 m are let
\* through.
C38_MeasuredFromRetained ==
    /\ (last.op = "pass" /\ last.rule = "debounce")
       => (Retains(attr) /\ attr["latitude"] = last.pre["latitude"]
                         /\ attr["longitude"] = last.pre["longitude"])
    /\ (MovedFromRetained /\ last.seen.tr.acc # Num(0)) => GateOpened

\* the fifth pass finds the tracked entity 12 m from the coordinates of the first pass,
\* which the three debounced passes 3, 6 and 9 m away left in the store, and opens the gate
C38_Witness ==
    /\ hist.steps = 5
    /\ MovedFromRetained
    /\ last.pre["latitude"].c = 0
    /\ last.seen.tr.lat = Num(4 * WalkStride)
    /\ last.seen.tr.acc = Num(50)
    /\ last.rule = "normal"

====
